---------------------------- MODULE Spec2Model ----------------------------
(***************************************************************************)
(* Model of the workflow execution engine of mastra-location-agent        *)
(* (src/src/workflows/workflow-engine.ts) together with the agents it      *)
(* calls (location-agent.ts, weather-agent.ts, travel-agent.ts and the AI  *)
(* location agent).                                                        *)
(*                                                                         *)
(* JavaScript runs the engine on one thread: the code between two awaits   *)
(* is atomic.  Every action below is one such synchronous segment of one   *)
(* workflow invocation ("task"): the segment that starts a workflow and    *)
(* its first step, and, for every step, the segment that runs when the     *)
(* step's operation settles (executeStep returns, the step is pushed, the  *)
(* execution is finished or the next step is started).                     *)
(*                                                                         *)
(* Conventions.  An optional value (a TypeScript `x?: T`) is <<>> when it  *)
(* is undefined and <<v>> when it is set.  An error message is a sequence  *)
(* of text fragments, so that template strings are concatenations and      *)
(* "contains" is membership of a fragment.  A string produced by           *)
(* JSON.stringify is the record [kind |-> "json", value |-> v]; any other  *)
(* string is [kind |-> "text", parts |-> fragments].                       *)
(***************************************************************************)
EXTENDS Integers, Sequences, FiniteSets, TLC

\* ------------------------------------------------------------------ bounds

\* the wall clock (Date.now()) takes the values 0..MaxClock
MaxClock == 1
\* Math.random() suffixes take the values 1..MaxRand
MaxRand == 1
\* how many times the reader of the store asks for an execution
MaxReads == 2

\* Every resolver builds its own engine and calls one workflow method on it
\* (new WorkflowEngine(context) in each mutation of the API surface): an engine
\* serves one invocation.
Tasks == {1}
Rand == 1..MaxRand

\* ------------------------------------------------------------ optional values

None == <<>>
Some(v) == <<v>>
IsSet(o) == o # <<>>
Get(o) == o[1]

\* ------------------------------------------------------------------ strings

Text(parts) == [kind |-> "text", parts |-> parts]

\* JSON.stringify(v) for a plain data value v (no undefined, NaN or Infinity
\* inside: every agent returns schema-validated plain data)
JSONstringify(v) == [kind |-> "json", value |-> v]

\* JSON.parse(s) succeeds exactly on the strings JSON.stringify produced; on
\* undefined (a missing output) and on other text it throws a SyntaxError
JSONparseThrows(o) == \/ ~IsSet(o)
                      \/ Get(o).kind # "json"
JSONparse(o) == Get(o).value

\* ------------------------------------------------------- IP address syntax

\* An IP string is kept with its text and with its characters split at the
\* separator: groups[i] is the i-th group as a sequence of character codes
\* (0..9 the digits, 10..15 the letters a..f, 16 any other character).
IP8888 == [text |-> "8.8.8.8", sep |-> ".",
           groups |-> << <<8>>, <<8>>, <<8>>, <<8>> >>]
IP999 == [text |-> "999.999.999.999", sep |-> ".",
          groups |-> << <<9, 9, 9>>, <<9, 9, 9>>, <<9, 9, 9>>, <<9, 9, 9>> >>]
IP123 == [text |-> "1.2.3", sep |-> ".",
          groups |-> << <<1>>, <<2>>, <<3>> >>]
IP256 == [text |-> "192.168.1.256", sep |-> ".",
          groups |-> << <<1, 9, 2>>, <<1, 6, 8>>, <<1>>, <<2, 5, 6>> >>]
IP255 == [text |-> "192.168.1.255", sep |-> ".",
          groups |-> << <<1, 9, 2>>, <<1, 6, 8>>, <<1>>, <<2, 5, 5>> >>]
IPv6 == [text |-> "2001:db8:0:0:0:0:0:1", sep |-> ":",
         groups |-> << <<2, 0, 0, 1>>, <<13, 11, 8>>, <<0>>, <<0>>, <<0>>,
                       <<0>>, <<0>>, <<1>> >>]
IPv6short == [text |-> "2001:db8:0:1", sep |-> ":",
              groups |-> << <<2, 0, 0, 1>>, <<13, 11, 8>>, <<0>>, <<1>> >>]
\* the same address as IPv6, written with the zero groups compressed
IPv6c == [text |-> "2001:db8::1", sep |-> ":",
          groups |-> << <<2, 0, 0, 1>>, <<13, 11, 8>>, <<>>, <<1>> >>]

\* the IP strings given to the workflows
IPs == {IP8888, IP255, IP999, IP256, IP123, IPv6, IPv6short, IPv6c}

\* (?:25[0-5]|2[0-4][0-9]|[01]?[0-9][0-9]?)
ipv4Octet(g) ==
    /\ Len(g) \in 1..3
    /\ \A i \in 1..Len(g) : g[i] \in 0..9
    /\ Len(g) = 3 => \/ (g[1] = 2 /\ g[2] = 5 /\ g[3] <= 5)
                     \/ (g[1] = 2 /\ g[2] <= 4)
                     \/ g[1] \in {0, 1}

\* ^(?:octet\.){3}octet$
ipv4Regex(ip) ==
    /\ ip.sep = "."
    /\ Len(ip.groups) = 4
    /\ \A i \in 1..4 : ipv4Octet(ip.groups[i])

\* ^(?:[0-9a-fA-F]{1,4}:){7}[0-9a-fA-F]{1,4}$
ipv6Regex(ip) ==
    /\ ip.sep = ":"
    /\ Len(ip.groups) = 8
    /\ \A i \in 1..8 : /\ Len(ip.groups[i]) \in 1..4
                       /\ \A j \in 1..Len(ip.groups[i]) : ip.groups[i][j] \in 0..15

\* a validation that only counts the groups (the variant C29 excludes)
isValidIPByGroups(ip) == Len(ip.groups) \in {4, 8}

isValidIP(ip) == ipv4Regex(ip) \/ ipv6Regex(ip)

validateIP(ip) == isValidIP(ip)

isValidAddress(ip) == validateIP(ip)


\* ------------------------------------------------- outcomes of an async call

\* the promise resolves with v
Return(v) == [kind |-> "return", value |-> v]
\* the promise rejects with new Error(message)
Throw(message) == [kind |-> "throw", isError |-> TRUE, message |-> message]
\* the promise rejects with a value that is not an Error instance
ThrowValue == [kind |-> "throw", isError |-> FALSE, message |-> <<>>]

\* error instanceof Error ? error.message : 'Unknown error'
errorMessage(o) == IF o.isError THEN o.message ELSE <<"Unknown error">>

\* ------------------------------------------------------------ LocationAgent

\* What https://api.ipgeolocation.io/ipgeo answers to axios.get (timeout 10 s).
\* A field the service left out is <<>>; latitude and longitude arrive as
\* numeric text, kept here as the number parseFloat reads from it.
GeoFull == [kind |-> "data", message |-> None,
            country_name |-> Some("United States"), state_prov |-> Some("California"),
            city |-> Some("Mountain View"), latitude |-> Some(37), longitude |-> Some(-122),
            timezone_name |-> Some("America/Los_Angeles"),
            isp |-> Some([type |-> "string", v |-> "Google LLC"])]
GeoSparse == [kind |-> "data", message |-> None,
              country_name |-> None, state_prov |-> None, city |-> None,
              latitude |-> None, longitude |-> None, timezone_name |-> None,
              isp |-> None]
GeoQuota == [kind |-> "data", message |-> Some("quota exceeded"),
             country_name |-> None, state_prov |-> None, city |-> None,
             latitude |-> None, longitude |-> None, timezone_name |-> None,
             isp |-> None]
GeoMalformed == [GeoFull EXCEPT !.isp = Some([type |-> "number", v |-> "15169"])]
GeoTimeout == [kind |-> "error", error |-> Throw(<<"timeout of 10000ms exceeded">>)]

GeoResponses == {GeoFull, GeoSparse, GeoQuota, GeoMalformed, GeoTimeout}

\* x || d for an optional text x
OrDefault(x, d) == IF IsSet(x) THEN Get(x) ELSE d
\* parseFloat(x) || 0: a missing or unreadable number is NaN, and NaN || 0 = 0
parseFloatOr0(x) == IF IsSet(x) THEN Get(x) ELSE 0

\* LocationSchema.parse({...}) of lines 79-88: fails when isp is set and is not
\* a string, otherwise the Location
LocationSchemaFails(data) == IsSet(data.isp) /\ Get(data.isp).type # "string"
LocationOf(ip, data) ==
    [ip |-> ip.text,
     country |-> OrDefault(data.country_name, "Unknown"),
     region |-> OrDefault(data.state_prov, "Unknown"),
     city |-> OrDefault(data.city, "Unknown"),
     latitude |-> parseFloatOr0(data.latitude),
     longitude |-> parseFloatOr0(data.longitude),
     timezone |-> OrDefault(data.timezone_name, "UTC"),
     isp |-> IF IsSet(data.isp) THEN Some(Get(data.isp).v) ELSE None]

\* whether getLocationFromIP sends the HTTP request: only for an IP that
\* isValidIP accepts
geoRequestSent(ip) == isValidIP(ip)

\* the body of the try block of getLocationFromIP
getLocationFromIPBody(ip, resp) ==
    IF ~isValidIP(ip) THEN Throw(<<"Invalid IP address: ", ip.text>>)
    ELSE IF resp.kind = "error" THEN resp.error
    ELSE IF IsSet(resp.message)
         THEN Throw(<<"Geolocation API error: ", Get(resp.message)>>)
    ELSE IF LocationSchemaFails(resp)
         THEN Throw(<<"Expected string, received number">>)
    ELSE Return(LocationOf(ip, resp))

\* getLocationFromIP: the catch block rewraps every failure
getLocationFromIP(ip, resp) ==
    LET r == getLocationFromIPBody(ip, resp)
    IN  IF r.kind = "throw"
        THEN Throw(<<"Failed to get location for IP ", ip.text, ": ">> \o errorMessage(r))
        ELSE r

getLocation(ip, resp) == getLocationFromIP(ip, resp)

\* ------------------------------------------------------------- WeatherAgent

\* What api.openweathermap.org/data/2.5/weather answers; temp in hundredths of
\* a degree.
WxClear == [kind |-> "data", name |-> "Mountain View", country |-> "US", temp |-> 1826,
            description |-> "clear sky", humidity |-> 40, wind |-> None]
WxTimeout == [kind |-> "error", error |-> Throw(<<"timeout of 10000ms exceeded">>)]

WeatherResponses == {WxClear, WxTimeout}

\* Math.round(x * 10) / 10 on hundredths, in tenths
roundTenths(h) == (h + 5) \div 10

\* WeatherSchema.parse({...}) of lines 105-117 and 147-159
WeatherOf(data, clock) ==
    [location |-> <<data.name, ", ", data.country>>,
     temperature |-> roundTenths(data.temp),
     description |-> data.description,
     humidity |-> data.humidity,
     windSpeed |-> parseFloatOr0(data.wind),
     lastUpdated |-> clock]

getCurrentWeather(latitude, longitude, resp, clock) ==
    IF resp.kind = "error"
    THEN Throw(<<"Failed to get weather data: ">> \o errorMessage(resp.error))
    ELSE Return(WeatherOf(resp, clock))

getWeatherByCity(city, resp, clock) ==
    IF resp.kind = "error"
    THEN Throw(<<"Failed to get weather for ", city, ": ">> \o errorMessage(resp.error))
    ELSE Return(WeatherOf(resp, clock))

getWeather(latitude, longitude, resp, clock) ==
    getCurrentWeather(latitude, longitude, resp, clock)

getWeatherByCityName(city, resp, clock) == getWeatherByCity(city, resp, clock)

\* -------------------------------------------------------------- TravelAgent

\* ['culture', 'food', 'nature'], the interests the engine always passes
DefaultInterests == <<"culture", "food", "nature">>
includes(seq, x) == \E i \in 1..Len(seq) : seq[i] = x

\* One recommendation; the texts that do not depend on the input (description,
\* activities, bestTimeToVisit, transport, accommodation) are left out.
Recommendation(destination, budget, defaultBudget, duration, defaultDuration) ==
    [destination |-> destination,
     estimatedBudget |-> OrDefault(budget, defaultBudget),
     duration |-> OrDefault(duration, defaultDuration)]

\* generateTravelRecommendations: the try block builds the list from literals
\* and interests.includes(...); for an array of interests nothing in it throws,
\* so the catch block (lines 205-208) is never entered
generateTravelRecommendations(latitude, longitude, interests, budget, duration) ==
    Return(
        (IF includes(interests, "culture") \/ includes(interests, "history")
         THEN <<Recommendation("Local Cultural District", budget, "$50-100 per day",
                               duration, "2-3 days")>> ELSE <<>>)
        \o
        (IF includes(interests, "nature") \/ includes(interests, "outdoor")
         THEN <<Recommendation("Nearby Natural Areas", budget, "$30-70 per day",
                               duration, "1-2 days")>> ELSE <<>>)
        \o
        (IF includes(interests, "food") \/ includes(interests, "cuisine")
         THEN <<Recommendation("Local Food Scene", budget, "$40-80 per day",
                               duration, "1-2 days")>> ELSE <<>>))

getRecommendations(latitude, longitude, interests) ==
    generateTravelRecommendations(latitude, longitude, interests, None, None)

\* Dates are YYYY-MM-DD strings, kept as the day number they denote.
\* Math.ceil((end - start) / one day) + 1
tripDays(startDate, endDate) == endDate - startDate + 1

\* `${days} day${days > 1 ? 's' : ''}`
calculateDuration(startDate, endDate) ==
    LET days == tripDays(startDate, endDate)
    IN  [days |-> days, unit |-> IF days > 1 THEN "days" ELSE "day"]

\* the activities of one day of generateItinerary, by name
dayActivities(day, days, interests) ==
    IF day = 1 THEN <<"Check-in and City Orientation", "Welcome Walk">>
    ELSE IF day = days THEN <<"Last-minute Shopping">>
    ELSE IF includes(interests, "culture")
         THEN <<"Museum and Cultural Sites Visit", "Traditional Craft Workshop">>
    ELSE IF includes(interests, "nature")
         THEN <<"Nature Hike", "Scenic Photography Tour">>
    ELSE IF includes(interests, "food")
         THEN <<"Food Market Tour", "Cooking Class">>
    ELSE <<"City Tour", "Local Experience">>

generateItinerary(destination, startDate, endDate, interests) ==
    LET days == tripDays(startDate, endDate)
    IN  [day \in 1..days |->
            [day |-> day,
             date |-> startDate + day - 1,
             activities |-> dayActivities(day, days, interests),
             dinner |-> IF includes(interests, "food") THEN "Fine Dining"
                        ELSE "Local Favorite",
             accommodation |-> IF day = days THEN None
                               ELSE Some(<<destination, " Hotel/Guesthouse">>)]]

\* `plan_${Date.now()}_${Math.random()...}`
planIdOf(clock, r) == [prefix |-> "plan", time |-> clock, rand |-> r]

\* a plan whose forecast is stamped with the clock reading (the variant C24
\* excludes)
TravelPlanOfTimed(input, clock, r) ==
    [id |-> planIdOf(clock, r),
     destination |-> input.destination,
     startDate |-> input.startDate,
     endDate |-> input.endDate,
     itinerary |-> generateItinerary(input.destination, input.startDate,
                                     input.endDate, input.interests),
     totalBudget |-> input.budget,
     weatherForecast |-> <<clock>>,
     recommendations |->
        generateTravelRecommendations(0, 0, input.interests, Some(input.budget),
            Some(calculateDuration(input.startDate, input.endDate))).value,
     createdAt |-> clock]

\* the TravelPlan createTravelPlan builds (lines 213-246)
TravelPlanOf(input, clock, r) ==
    [id |-> planIdOf(clock, r),
     destination |-> input.destination,
     startDate |-> input.startDate,
     endDate |-> input.endDate,
     itinerary |-> generateItinerary(input.destination, input.startDate,
                                     input.endDate, input.interests),
     totalBudget |-> input.budget,
     weatherForecast |-> <<>>,
     recommendations |->
        generateTravelRecommendations(0, 0, input.interests, Some(input.budget),
            Some(calculateDuration(input.startDate, input.endDate))).value,
     createdAt |-> clock]

\* createTravelPlan: the itinerary, the recommendations and the plan are built
\* from the input without a validation that could reject it, so the catch
\* block (lines 252-255) is never entered
createTravelPlan(input, clock, r) == Return(TravelPlanOf(input, clock, r))

createPlan(input, clock, r) == createTravelPlan(input, clock, r)

\* this.travelPlans.set(planId, travelPlan), done only when the plan was built
MapSet(m, k, v) == [x \in (DOMAIN m) \cup {k} |-> IF x = k THEN v ELSE m[x]]
travelPlansAfter(plans, r) ==
    IF r.kind = "return" THEN MapSet(plans, r.value.id, r.value) ELSE plans

\* ---------------------------------------------------------- AILocationAgent

\* What the chat-completions endpoint answers to callOpenAI (timeout 30 s)
OaiJson == [kind |-> "data", json |-> TRUE]
OaiRateLimit == [kind |-> "error", error |-> Throw(<<"OpenAI API rate limit exceeded">>)]

OpenAIResponses == {OaiJson, OaiRateLimit}

\* generateLocationInsights: the LocationAnalysis parsed from the completion
getLocationInsights(city, country, region, latitude, longitude, purpose, resp) ==
    IF resp.kind = "error"
    THEN Throw(<<"Failed to generate insights for ", city, ", ", country, ": ">>
               \o errorMessage(resp.error))
    ELSE Return([location |-> Some([city |-> city, country |-> country]),
                 insights |-> Some("insights"),
                 nearbyPlaces |-> Some(<<"place from insights">>),
                 recommendations |-> Some(<<"recommendation">>),
                 riskAssessment |-> Some("risk from insights")])

\* analyzeLocationRisks: whatever JSON the completion holds
getRiskAnalysis(city, country, resp) ==
    IF resp.kind = "error"
    THEN Throw(<<"Failed to analyze risks for ", city, ", ", country, ": ">>
               \o errorMessage(resp.error))
    ELSE Return("risk analysis")

\* findNearbyPlaces
getNearbyPlaces(city, country, resp) ==
    IF resp.kind = "error"
    THEN Throw(<<"Failed to find nearby places for ", city, ", ", country, ": ">>
               \o errorMessage(resp.error))
    ELSE Return(<<"nearby place">>)

\* ------------------------------------------------------------ WorkflowEngine

\* a step executor that drops the failure's message (the variant C7 excludes)
executeStepMute(name, outcome, input, startTime, endTime) ==
    [name |-> name,
     status |-> IF outcome.kind = "return" THEN "completed" ELSE "failed",
     input |-> input,
     output |-> IF outcome.kind = "return" THEN Some(outcome.value) ELSE None,
     error |-> IF outcome.kind = "return" THEN None ELSE Some(<<"Unknown error">>),
     duration |-> Some(endTime - startTime)]

\* a step executor that marks the step completed before the operation has
\* settled and never takes that back (the variant C18 excludes)
executeStepOptimistic(name, outcome, input, startTime, endTime) ==
    [name |-> name,
     status |-> "completed",
     input |-> input,
     output |-> IF outcome.kind = "return" THEN Some(outcome.value) ELSE None,
     error |-> IF outcome.kind = "return" THEN None ELSE Some(errorMessage(outcome)),
     duration |-> Some(endTime - startTime)]

\* executeStep(name, operation, input): `outcome` is how operation() settled,
\* startTime and endTime the two readings of Date.now()
executeStep(name, outcome, input, startTime, endTime) ==
    [name |-> name,
     status |-> IF outcome.kind = "return" THEN "completed" ELSE "failed",
     input |-> input,
     output |-> IF outcome.kind = "return" THEN Some(outcome.value) ELSE None,
     error |-> IF outcome.kind = "return" THEN None ELSE Some(errorMessage(outcome)),
     duration |-> Some(endTime - startTime)]

\* `exec_${Date.now()}_${Math.random().toString(36).substr(2, 9)}`
generateExecutionId(clock, r) == [prefix |-> "exec", time |-> clock, rand |-> r]

\* the WorkflowExecution every execute*Workflow starts with
newExecution(id, clock) ==
    [id |-> id, status |-> "running", steps |-> <<>>, result |-> None,
     error |-> None, startedAt |-> clock, completedAt |-> None]

\* a step put at the head of the array (the variant C8 excludes)
unshiftStep(execution, step) == [execution EXCEPT !.steps = <<step>> \o @]

\* execution.steps.push(step)
pushStep(execution, step) == [execution EXCEPT !.steps = Append(@, step)]

\* a failure that reports a text of its own instead of the given error (the
\* variant C3 excludes)
failUnknown(execution, error, clock) ==
    [execution EXCEPT !.status = "failed", !.error = Some(<<"Workflow failed">>),
                      !.completedAt = Some(clock)]

\* a failure that records the error and leaves the status as it was (the
\* variant C4 excludes)
failSilently(execution, error, clock) ==
    [execution EXCEPT !.error = error, !.completedAt = Some(clock)]

\* a failure that is not time-stamped (the variant C6 excludes)
failUnstamped(execution, error, clock) ==
    [execution EXCEPT !.status = "failed", !.error = error]

\* a failure that leaves the status at running (the variant C16 excludes)
failStillRunning(execution, error, clock) ==
    [execution EXCEPT !.error = error, !.completedAt = Some(clock)]

\* status = 'failed'; error = ...; completedAt = new Date().toISOString()
failExecution(execution, error, clock) ==
    [execution EXCEPT !.status = "failed", !.error = error,
                      !.completedAt = Some(clock)]

\* a tail that sets the status and forgets the result and the error (the
\* variant C5 excludes)
finishBare(execution, step, clock) ==
    [execution EXCEPT !.status = step.status, !.completedAt = Some(clock)]

\* a tail that completes only when every recorded step completed (the variant
\* C9 excludes)
finishIfAllCompleted(execution, step, clock) ==
    IF \A i \in 1..Len(execution.steps) : execution.steps[i].status = "completed"
    THEN [execution EXCEPT !.status = "completed", !.result = step.output,
                           !.completedAt = Some(clock)]
    ELSE [execution EXCEPT !.status = "failed",
                           !.error = Some(<<"A step of the workflow failed">>),
                           !.completedAt = Some(clock)]

\* the tail of every workflow: the last step decides
\*   if (step.status === 'completed') { status = 'completed'; result = step.output }
\*   else { status = 'failed'; error = step.error }
\*   completedAt = new Date().toISOString()
finishWith(execution, step, clock) ==
    IF step.status = "completed"
    THEN [execution EXCEPT !.status = "completed", !.result = step.output,
                           !.completedAt = Some(clock)]
    ELSE failExecution(execution, step.error, clock)

\* a validation step that lets every string through (the variant C2 excludes)
validateNothing(ip) == Return(Text(<<"IP ", ip.text, " is valid">>))

\* the operation of the 'Validate IP Address' step
validateOperation(ip) ==
    IF ~isValidAddress(ip) THEN Throw(<<"Invalid IP address: ", ip.text>>)
    ELSE Return(Text(<<"IP ", ip.text, " is valid">>))

\* the operation of the 'Get Location from IP' step
locationOperation(ip, hasKey, resp) ==
    IF ~hasKey THEN Throw(<<"IP geolocation ", "API key not configured">>)
    ELSE LET r == getLocation(ip, resp)
         IN  IF r.kind = "return" THEN Return(JSONstringify(r.value)) ELSE r

\* a geolocation call made whether or not the credential is configured (the
\* variant C20 excludes)
locationCallsUnguarded(ip, hasKey) ==
    <<[fn |-> "locationAgent.getLocation", arg |-> ip.text]>>

\* the calls the 'Get Location from IP' operation makes
locationCalls(ip, hasKey) ==
    IF ~hasKey THEN <<>>
    ELSE <<[fn |-> "locationAgent.getLocation", arg |-> ip.text]>>
         \o (IF geoRequestSent(ip)
             THEN <<[fn |-> "axios.get", arg |-> "api.ipgeolocation.io"]>> ELSE <<>>)

\* the answers the geolocation request can get: none when it is not sent
locationAnswers(ip, hasKey) ==
    IF hasKey /\ geoRequestSent(ip) THEN GeoResponses ELSE {GeoTimeout}
\* the answer received, if the request was sent
locationAnswered(ip, hasKey, resp) ==
    IF hasKey /\ geoRequestSent(ip) THEN <<resp>> ELSE <<>>

\* catch (error) { status = 'failed'; error = error instanceof Error ? ... }
catchExecution(execution, thrown, clock) ==
    failExecution(execution, Some(errorMessage(thrown)), clock)

\* what JSON.parse throws on a string that is not JSON
SyntaxError == Throw(<<"Unexpected token in JSON">>)

\* the operation of the 'Get Weather for Location' step (weather workflow)
weatherOperation(locationOutput, hasKey, resp, clock) ==
    IF ~hasKey THEN Throw(<<"Weather ", "API key not configured">>)
    ELSE IF JSONparseThrows(locationOutput) THEN SyntaxError
    ELSE LET location == JSONparse(locationOutput)
             r == getWeather(location.latitude, location.longitude, resp, clock)
         IN  IF r.kind = "return" THEN Return(JSONstringify(r.value)) ELSE r

\* a weather call with the coordinates in the wrong order (the variant C11
\* excludes)
weatherCallsSwapped(locationOutput, hasKey) ==
    IF ~hasKey \/ JSONparseThrows(locationOutput) THEN <<>>
    ELSE <<[fn |-> "weatherAgent.getWeather",
            arg |-> <<JSONparse(locationOutput).longitude,
                      JSONparse(locationOutput).latitude>>]>>

weatherCalls(locationOutput, hasKey) ==
    IF ~hasKey \/ JSONparseThrows(locationOutput) THEN <<>>
    ELSE <<[fn |-> "weatherAgent.getWeather",
            arg |-> <<JSONparse(locationOutput).latitude,
                      JSONparse(locationOutput).longitude>>]>>

\* the operation of the 'Get Weather Forecast' step (travel planning)
forecastOperation(locationData, destination, hasKey, resp, clock) ==
    IF ~hasKey THEN Throw(<<"Weather ", "API key not configured">>)
    ELSE IF IsSet(locationData)
    THEN LET r == getWeather(Get(locationData).latitude, Get(locationData).longitude,
                             resp, clock)
         IN  IF r.kind = "return" THEN Return(JSONstringify(r.value)) ELSE r
    ELSE IF IsSet(destination)
    THEN LET r == getWeatherByCityName(Get(destination), resp, clock)
         IN  IF r.kind = "return" THEN Return(JSONstringify(r.value)) ELSE r
    ELSE Throw(<<"No location data available for weather forecast">>)

forecastCalls(locationData, destination, hasKey) ==
    IF ~hasKey THEN <<>>
    ELSE IF IsSet(locationData)
    THEN <<[fn |-> "weatherAgent.getWeather",
            arg |-> <<Get(locationData).latitude, Get(locationData).longitude>>]>>
    ELSE IF IsSet(destination)
    THEN <<[fn |-> "weatherAgent.getWeatherByCityName", arg |-> Get(destination)]>>
    ELSE <<>>

\* the answers the weather request can get: none when it is not sent
weatherAnswers(calls) == IF calls # <<>> THEN WeatherResponses ELSE {WxTimeout}
weatherAnswered(calls, resp) == IF calls # <<>> THEN <<resp>> ELSE <<>>

\* `${locationData.city}, ${locationData.country}`
cityCountry(locationData) == <<locationData.city, ", ", locationData.country>>

\* a destination that ignores what the caller gave (the variant C10 excludes)
destinationIgnored(destination, locationData, fallback) == <<fallback>>

\* destination || (locationData ? `${city}, ${country}` : fallback)
destinationOr(destination, locationData, fallback) ==
    IF IsSet(destination) THEN <<Get(destination)>>
    ELSE IF IsSet(locationData) THEN cityCountry(Get(locationData))
    ELSE <<fallback>>

\* the operation of the 'Generate Travel Recommendations' step
recommendationsOperation(locationData) ==
    LET lat == IF IsSet(locationData) THEN Get(locationData).latitude ELSE 0
        lng == IF IsSet(locationData) THEN Get(locationData).longitude ELSE 0
        r == getRecommendations(lat, lng, DefaultInterests)
    IN  IF r.kind = "return" THEN Return(JSONstringify(r.value)) ELSE r

\* the planInput of the 'Create Travel Plan' step
planInput(destination, locationData, startDate, endDate) ==
    [destination |-> destinationOr(destination, locationData, "Unknown Destination"),
     startDate |-> startDate,
     endDate |-> endDate,
     travelers |-> 1,
     interests |-> DefaultInterests,
     budget |-> "$100-200 per day",
     travelStyle |-> "balanced"]

\* the operation of the 'Create Travel Plan' step, as the agent's answer
travelPlanAnswer(destination, locationData, startDate, endDate, clock, r) ==
    createPlan(planInput(destination, locationData, startDate, endDate), clock, r)

travelPlanOperation(answer) ==
    IF answer.kind = "return" THEN Return(JSONstringify(answer.value)) ELSE answer

\* the operations of the three AI steps of the location analysis
insightsOperation(locationData, purpose, hasKey, resp) ==
    IF ~hasKey THEN Throw(<<"OpenAI ", "API key not configured">>)
    ELSE LET r == getLocationInsights(locationData.city, locationData.country,
                      locationData.region, locationData.latitude,
                      locationData.longitude, purpose, resp)
         IN  IF r.kind = "return" THEN Return(JSONstringify(r.value)) ELSE r

riskOperation(locationData, hasKey, resp) ==
    IF ~hasKey THEN Throw(<<"OpenAI ", "API key not configured">>)
    ELSE LET r == getRiskAnalysis(locationData.city, locationData.country, resp)
         IN  IF r.kind = "return" THEN Return(JSONstringify(r.value)) ELSE r

nearbyOperation(locationData, hasKey, resp) ==
    IF ~hasKey THEN Throw(<<"OpenAI ", "API key not configured">>)
    ELSE LET r == getNearbyPlaces(locationData.city, locationData.country, resp)
         IN  IF r.kind = "return" THEN Return(JSONstringify(r.value)) ELSE r

aiCalls(fn, hasKey) == IF hasKey THEN <<[fn |-> fn, arg |-> "openai"]>> ELSE <<>>
aiAnswers(hasKey) == IF hasKey THEN OpenAIResponses ELSE {OaiRateLimit}
aiAnswered(hasKey, resp) == IF hasKey THEN <<resp>> ELSE <<>>

\* JSON.parse(step.output || '{}').field || fallback
fieldOr(step, field, fallback) ==
    IF IsSet(step.output) /\ IsSet(JSONparse(step.output)[field])
    THEN Get(JSONparse(step.output)[field]) ELSE fallback

\* JSON.parse(step.output || fallbackText)
parsedOr(step, fallback) ==
    IF IsSet(step.output) THEN JSONparse(step.output) ELSE fallback

\* a compile operation that insists on its predecessors' outputs (the variant
\* C21 excludes)
analysisOperationStrict(locationData, insightsStep, riskStep, nearbyStep, purpose, clock) ==
    IF \E st \in {insightsStep, riskStep, nearbyStep} : ~IsSet(st.output)
    THEN SyntaxError
    ELSE Return(JSONstringify(
             [location |-> locationData,
              insights |-> fieldOr(insightsStep, "insights", "{}"),
              riskAssessment |-> fieldOr(insightsStep, "riskAssessment",
                                         parsedOr(riskStep, "{}")),
              nearbyPlaces |-> fieldOr(insightsStep, "nearbyPlaces",
                                       parsedOr(nearbyStep, <<>>)),
              recommendations |-> fieldOr(insightsStep, "recommendations", <<>>),
              analysisDate |-> clock,
              purpose |-> purpose]))

\* the operation of the 'Compile Comprehensive Analysis' step
analysisOperation(locationData, insightsStep, riskStep, nearbyStep, purpose, clock) ==
    Return(JSONstringify(
        [location |-> locationData,
         insights |-> fieldOr(insightsStep, "insights", "{}"),
         riskAssessment |-> fieldOr(insightsStep, "riskAssessment",
                                    parsedOr(riskStep, "{}")),
         nearbyPlaces |-> fieldOr(insightsStep, "nearbyPlaces",
                                  parsedOr(nearbyStep, <<>>)),
         recommendations |-> fieldOr(insightsStep, "recommendations", <<>>),
         analysisDate |-> clock,
         purpose |-> purpose]))

\* ------------------------------------------------------------------- state

VARIABLES
    executions,   \* WorkflowEngine.executions: execution id -> WorkflowExecution
    travelPlans,  \* TravelAgent.travelPlans: plan id -> TravelPlan
    keys,         \* which API keys the context holds
    now,          \* Date.now()
    task          \* the workflow invocations: their locals and where they stand

vars == <<executions, travelPlans, keys, now, task>>

EmptyMap == [x \in {} |-> x]

\* a workflow method that was not called yet
IdleTask ==
    [pc |-> "idle", wf |-> "none", ip |-> None, destination |-> None,
     city |-> None, country |-> None, trip |-> None, execution |-> None,
     locationData |-> None,
     stepStart |-> 0, inflight |-> {}, calls |-> <<>>, answers |-> <<>>,
     planAnswer |-> None]

\* the inputs of the workflows
TravelInputs ==
    {[ip |-> Some(IP8888), destination |-> None],
     [ip |-> Some(IP999), destination |-> Some("Paris, France")],
     [ip |-> None, destination |-> Some("Paris, France")],
     [ip |-> None, destination |-> None]}
Trips == {[startDate |-> 1, endDate |-> 3]}
Purpose == "general"
AnalysisInputs ==
    {[ip |-> Some(IP8888), city |-> None, country |-> None],
     [ip |-> Some(IP999), city |-> Some("Paris"), country |-> None],
     [ip |-> None, city |-> Some("Paris"), country |-> Some("France")],
     [ip |-> None, city |-> None, country |-> None]}

\* the API keys of the context: each key is set in one and missing in another
KeySets ==
    {[geo |-> TRUE, weather |-> TRUE, openai |-> TRUE],
     [geo |-> TRUE, weather |-> FALSE, openai |-> FALSE],
     [geo |-> FALSE, weather |-> FALSE, openai |-> FALSE]}

Init ==
    /\ executions = EmptyMap
    /\ travelPlans = EmptyMap
    /\ keys \in KeySets
    /\ now = 0
    /\ task = [t \in Tasks |-> IdleTask]

\* a call of a workflow method: tasks are taken in order
CanStart(t) ==
    /\ task[t].pc = "idle"
    /\ \A u \in DOMAIN task : u < t => task[u].pc # "idle"

\* the invocation starts its step `name`: the operation runs up to its await
beginStep(tk, pc, name, calls, clock) ==
    [tk EXCEPT !.pc = pc, !.stepStart = clock,
               !.inflight = @ \cup {name}, !.calls = @ \o calls]

\* the invocation returns `execution`
returnExecution(tk, execution) ==
    [tk EXCEPT !.pc = "done", !.execution = Some(execution)]

\* this.executions.set(executionId, execution); return execution
Finish(t, tk, execution) ==
    /\ task' = [task EXCEPT ![t] = returnExecution(tk, execution)]
    /\ executions' = MapSet(executions, execution.id, execution)

\* a settling that pushes the step onto the execution the engine started
\* last, as if `execution` were a field of the engine and not a local of the
\* invocation (the variant C27 excludes)
settledOnShared(t, name, step, answers) ==
    LET last == CHOOSE u \in DOMAIN task :
                    /\ IsSet(task[u].execution)
                    /\ \A v \in DOMAIN task : IsSet(task[v].execution) => v <= u
    IN  [task[t] EXCEPT !.inflight = @ \ {name},
                        !.answers = @ \o answers,
                        !.execution = Some(pushStep(Get(task[last].execution), step))]

\* the step `name` of invocation t has settled as `step`, after the requests
\* of its operation were answered by `answers` (none when none was sent)
settled(t, name, step, answers) ==
    [task[t] EXCEPT !.inflight = @ \ {name},
                    !.answers = @ \o answers,
                    !.execution = Some(pushStep(Get(@), step))]

\* ---------------------------------------------- executeLocationWorkflow(ip)

executeLocationWorkflow(t) ==
    \E ip \in IPs, r \in Rand :
        /\ CanStart(t)
        /\ task' = [task EXCEPT ![t] =
               beginStep([@ EXCEPT !.wf = "location", !.ip = Some(ip),
                                   !.execution = Some(newExecution(
                                       generateExecutionId(now, r), now))],
                         "validate", "Validate IP Address",
                         <<[fn |-> "locationAgent.isValidAddress", arg |-> ip.text]>>,
                         now)]
        /\ UNCHANGED <<executions, travelPlans, keys, now>>

LocationValidateSettled(t) ==
    /\ task[t].wf = "location" /\ task[t].pc = "validate"
    /\ LET ip == Get(task[t].ip)
           step == executeStep("Validate IP Address", validateOperation(ip),
                               Some(Text(<<ip.text>>)), task[t].stepStart, now)
           tk == settled(t, "Validate IP Address", step, <<>>)
       IN  IF step.status = "failed"
           THEN Finish(t, tk, failExecution(Get(tk.execution), step.error, now))
           ELSE /\ task' = [task EXCEPT ![t] =
                       beginStep(tk, "location", "Get Location from IP",
                                 locationCalls(ip, keys.geo), now)]
                /\ UNCHANGED executions
    /\ UNCHANGED <<travelPlans, keys, now>>

LocationLocationSettled(t) ==
    /\ task[t].wf = "location" /\ task[t].pc = "location"
    /\ \E resp \in locationAnswers(Get(task[t].ip), keys.geo) :
         LET ip == Get(task[t].ip)
             step == executeStep("Get Location from IP",
                                 locationOperation(ip, keys.geo, resp),
                                 Some(Text(<<"IP: ", ip.text>>)), task[t].stepStart, now)
             tk == settled(t, "Get Location from IP", step,
                          locationAnswered(ip, keys.geo, resp))
         IN  Finish(t, tk, finishWith(Get(tk.execution), step, now))
    /\ UNCHANGED <<travelPlans, keys, now>>

\* ----------------------------------------------- executeWeatherWorkflow(ip)

executeWeatherWorkflow(t) ==
    \E ip \in IPs, r \in Rand :
        /\ CanStart(t)
        /\ task' = [task EXCEPT ![t] =
               beginStep([@ EXCEPT !.wf = "weather", !.ip = Some(ip),
                                   !.execution = Some(newExecution(
                                       generateExecutionId(now, r), now))],
                         "location", "Get Location from IP",
                         locationCalls(ip, keys.geo), now)]
        /\ UNCHANGED <<executions, travelPlans, keys, now>>

WeatherLocationSettled(t) ==
    /\ task[t].wf = "weather" /\ task[t].pc = "location"
    /\ \E resp \in locationAnswers(Get(task[t].ip), keys.geo) :
         LET ip == Get(task[t].ip)
             step == executeStep("Get Location from IP",
                                 locationOperation(ip, keys.geo, resp),
                                 Some(Text(<<"IP: ", ip.text>>)), task[t].stepStart, now)
             tk == settled(t, "Get Location from IP", step,
                          locationAnswered(ip, keys.geo, resp))
         IN  IF step.status = "failed"
             THEN Finish(t, tk, failExecution(Get(tk.execution), step.error, now))
             ELSE /\ task' = [task EXCEPT ![t] =
                         beginStep(tk, "weather", "Get Weather for Location",
                                   weatherCalls(step.output, keys.weather), now)]
                  /\ UNCHANGED executions
    /\ UNCHANGED <<travelPlans, keys, now>>

WeatherWeatherSettled(t) ==
    /\ task[t].wf = "weather" /\ task[t].pc = "weather"
    /\ LET locationStep == Get(task[t].execution).steps[1]
       IN  \E resp \in weatherAnswers(weatherCalls(locationStep.output, keys.weather)) :
             LET step == executeStep("Get Weather for Location",
                             weatherOperation(locationStep.output, keys.weather, resp, now),
                             Some(OrDefault(locationStep.output, Text(<<>>))),
                             task[t].stepStart, now)
                 tk == settled(t, "Get Weather for Location", step,
                     weatherAnswered(weatherCalls(locationStep.output, keys.weather),
                                     resp))
             IN  Finish(t, tk, finishWith(Get(tk.execution), step, now))
    /\ UNCHANGED <<travelPlans, keys, now>>

\* ------- executeTravelPlanningWorkflow({ip, destination, startDate, endDate})

\* the 'Get Weather Forecast' step is started
beginForecast(tk, clock, hasKey) ==
    beginStep(tk, "forecast", "Get Weather Forecast",
              forecastCalls(tk.locationData, tk.destination, hasKey), clock)

\* the invocation up to its first await: the execution is created and the
\* first step is started
travelPlanningStarted(idle, in, trip, r) ==
    LET ip == in.ip
        tk == [idle EXCEPT !.wf = "travel", !.ip = in.ip,
                           !.destination = in.destination, !.trip = Some(trip),
                           !.execution = Some(newExecution(
                               generateExecutionId(now, r), now))]
    IN  IF IsSet(ip)
        THEN beginStep(tk, "location", "Get Location from IP",
                       locationCalls(Get(ip), keys.geo), now)
        ELSE beginForecast(tk, now, keys.weather)

executeTravelPlanningWorkflow(t) ==
    \E in \in TravelInputs, trip \in Trips, r \in Rand :
        /\ CanStart(t)
        /\ task' = [task EXCEPT ![t] = travelPlanningStarted(task[t], in, trip, r)]
        /\ UNCHANGED <<executions, travelPlans, keys, now>>

TravelLocationSettled(t) ==
    /\ task[t].wf = "travel" /\ task[t].pc = "location"
    /\ \E resp \in locationAnswers(Get(task[t].ip), keys.geo) :
         LET ip == Get(task[t].ip)
             step == executeStep("Get Location from IP",
                                 locationOperation(ip, keys.geo, resp),
                                 Some(Text(<<"IP: ", ip.text>>)), task[t].stepStart, now)
             tk == settled(t, "Get Location from IP", step,
                          locationAnswered(ip, keys.geo, resp))
         IN  IF step.status = "failed"
             THEN Finish(t, tk, failExecution(Get(tk.execution), step.error, now))
             ELSE IF JSONparseThrows(step.output)
             THEN Finish(t, tk, catchExecution(Get(tk.execution), SyntaxError, now))
             ELSE /\ task' = [task EXCEPT ![t] =
                         beginForecast([tk EXCEPT !.locationData =
                                            Some(JSONparse(step.output))],
                                       now, keys.weather)]
                  /\ UNCHANGED executions
    /\ UNCHANGED <<travelPlans, keys, now>>

TravelForecastSettled(t) ==
    /\ task[t].wf = "travel" /\ task[t].pc = "forecast"
    /\ \E resp \in weatherAnswers(forecastCalls(task[t].locationData,
                                                task[t].destination, keys.weather)) :
         LET step == executeStep("Get Weather Forecast",
                         forecastOperation(task[t].locationData, task[t].destination,
                                           keys.weather, resp, now),
                         Some(Text(destinationOr(task[t].destination,
                                                 task[t].locationData, "Unknown"))),
                         task[t].stepStart, now)
             tk == settled(t, "Get Weather Forecast", step,
                      weatherAnswered(forecastCalls(task[t].locationData,
                          task[t].destination, keys.weather), resp))
         IN  task' = [task EXCEPT ![t] =
                 beginStep(tk, "recommendations", "Generate Travel Recommendations",
                           <<[fn |-> "travelAgent.getRecommendations",
                              arg |-> DefaultInterests]>>, now)]
    /\ UNCHANGED <<executions, travelPlans, keys, now>>

\* The 'Create Travel Plan' operation runs createPlan when the step starts: the
\* plan takes its id and createdAt, and is stored, in that segment.
TravelRecommendationsSettled(t) ==
    /\ task[t].wf = "travel" /\ task[t].pc = "recommendations"
    /\ \E r \in Rand :
         LET step == executeStep("Generate Travel Recommendations",
                         recommendationsOperation(task[t].locationData),
                         Some(Text(<<"Default interests: culture, food, nature">>)),
                         task[t].stepStart, now)
             tk == settled(t, "Generate Travel Recommendations", step, <<>>)
             trip == Get(tk.trip)
             answer == travelPlanAnswer(tk.destination, tk.locationData,
                                        trip.startDate, trip.endDate, now, r)
         IN  /\ task' = [task EXCEPT ![t] =
                    beginStep([tk EXCEPT !.planAnswer = Some(answer)],
                              "plan", "Create Travel Plan",
                              <<[fn |-> "travelAgent.createPlan",
                                 arg |-> destinationOr(tk.destination, tk.locationData,
                                                       "Unknown Destination")]>>, now)]
             /\ travelPlans' = travelPlansAfter(travelPlans, answer)
    /\ UNCHANGED <<executions, keys, now>>

TravelPlanSettled(t) ==
    /\ task[t].wf = "travel" /\ task[t].pc = "plan"
    /\ LET trip == Get(task[t].trip)
           step == executeStep("Create Travel Plan",
                       travelPlanOperation(Get(task[t].planAnswer)),
                       Some(JSONstringify([destination |-> task[t].destination,
                                           startDate |-> trip.startDate,
                                           endDate |-> trip.endDate])),
                       task[t].stepStart, now)
           tk == settled(t, "Create Travel Plan", step, <<>>)
       IN  Finish(t, [tk EXCEPT !.planAnswer = None],
                  finishWith(Get(tk.execution), step, now))
    /\ UNCHANGED <<travelPlans, keys, now>>

\* ---------- executeLocationAnalysisWorkflow({ip, city, country, purpose})

\* the 'Generate Location Insights' step is started
beginInsights(tk, clock, hasKey) ==
    beginStep(tk, "insights", "Generate Location Insights",
              aiCalls("aiLocationAgent.getLocationInsights", hasKey), clock)

executeLocationAnalysisWorkflow(t) ==
    \E in \in AnalysisInputs, r \in Rand :
        /\ CanStart(t)
        /\ LET tk == [task[t] EXCEPT !.wf = "analysis", !.ip = in.ip,
                                     !.city = in.city, !.country = in.country,
                                     !.execution = Some(newExecution(
                                         generateExecutionId(now, r), now))]
           IN  IF IsSet(in.ip) /\ (~IsSet(in.city) \/ ~IsSet(in.country))
               THEN /\ task' = [task EXCEPT ![t] =
                           beginStep(tk, "location", "Get Location from IP",
                                     locationCalls(Get(in.ip), keys.geo), now)]
                    /\ UNCHANGED executions
               ELSE IF IsSet(in.city) /\ IsSet(in.country)
               THEN /\ task' = [task EXCEPT ![t] =
                           beginInsights([tk EXCEPT !.locationData =
                                   Some([city |-> Get(in.city), country |-> Get(in.country),
                                         region |-> "", latitude |-> 0, longitude |-> 0])],
                               now, keys.openai)]
                    /\ UNCHANGED executions
               ELSE Finish(t, tk, failExecution(Get(tk.execution),
                        Some(<<"Either IP address or city/country must be provided">>),
                        now))
        /\ UNCHANGED <<travelPlans, keys, now>>

AnalysisLocationSettled(t) ==
    /\ task[t].wf = "analysis" /\ task[t].pc = "location"
    /\ \E resp \in locationAnswers(Get(task[t].ip), keys.geo) :
         LET ip == Get(task[t].ip)
             step == executeStep("Get Location from IP",
                                 locationOperation(ip, keys.geo, resp),
                                 Some(Text(<<"IP: ", ip.text>>)), task[t].stepStart, now)
             tk == settled(t, "Get Location from IP", step,
                          locationAnswered(ip, keys.geo, resp))
         IN  IF step.status = "failed"
             THEN Finish(t, tk, failExecution(Get(tk.execution), step.error, now))
             ELSE IF JSONparseThrows(step.output)
             THEN Finish(t, tk, catchExecution(Get(tk.execution), SyntaxError, now))
             ELSE /\ task' = [task EXCEPT ![t] =
                         beginInsights([tk EXCEPT !.locationData =
                                            Some(JSONparse(step.output))],
                                       now, keys.openai)]
                  /\ UNCHANGED executions
    /\ UNCHANGED <<travelPlans, keys, now>>

AnalysisInsightsSettled(t) ==
    /\ task[t].wf = "analysis" /\ task[t].pc = "insights"
    /\ \E resp \in aiAnswers(keys.openai) :
         LET loc == Get(task[t].locationData)
             step == executeStep("Generate Location Insights",
                         insightsOperation(loc, Purpose, keys.openai, resp),
                         Some(JSONstringify([location |-> loc, purpose |-> Purpose])),
                         task[t].stepStart, now)
             tk == settled(t, "Generate Location Insights", step,
                          aiAnswered(keys.openai, resp))
         IN  task' = [task EXCEPT ![t] =
                 beginStep(tk, "risk", "Analyze Location Risks",
                           aiCalls("aiLocationAgent.getRiskAnalysis", keys.openai), now)]
    /\ UNCHANGED <<executions, travelPlans, keys, now>>

AnalysisRiskSettled(t) ==
    /\ task[t].wf = "analysis" /\ task[t].pc = "risk"
    /\ \E resp \in aiAnswers(keys.openai) :
         LET loc == Get(task[t].locationData)
             step == executeStep("Analyze Location Risks",
                         riskOperation(loc, keys.openai, resp),
                         Some(Text(<<"Location: ">> \o cityCountry(loc))),
                         task[t].stepStart, now)
             tk == settled(t, "Analyze Location Risks", step,
                          aiAnswered(keys.openai, resp))
         IN  task' = [task EXCEPT ![t] =
                 beginStep(tk, "nearby", "Find Nearby Places",
                           aiCalls("aiLocationAgent.getNearbyPlaces", keys.openai), now)]
    /\ UNCHANGED <<executions, travelPlans, keys, now>>

AnalysisNearbySettled(t) ==
    /\ task[t].wf = "analysis" /\ task[t].pc = "nearby"
    /\ \E resp \in aiAnswers(keys.openai) :
         LET loc == Get(task[t].locationData)
             step == executeStep("Find Nearby Places",
                         nearbyOperation(loc, keys.openai, resp),
                         Some(Text(<<"Location: ">> \o cityCountry(loc)
                                   \o <<", Radius: 50km">>)),
                         task[t].stepStart, now)
             tk == settled(t, "Find Nearby Places", step,
                          aiAnswered(keys.openai, resp))
         IN  task' = [task EXCEPT ![t] =
                 beginStep(tk, "compile", "Compile Comprehensive Analysis", <<>>, now)]
    /\ UNCHANGED <<executions, travelPlans, keys, now>>

\* the steps of an execution named `name`, in order
stepsNamed(execution, name) ==
    SelectSeq(execution.steps, LAMBDA s : s.name = name)

AnalysisCompileSettled(t) ==
    /\ task[t].wf = "analysis" /\ task[t].pc = "compile"
    /\ LET loc == Get(task[t].locationData)
           ex == Get(task[t].execution)
           step == executeStep("Compile Comprehensive Analysis",
                       analysisOperation(loc,
                           stepsNamed(ex, "Generate Location Insights")[1],
                           stepsNamed(ex, "Analyze Location Risks")[1],
                           stepsNamed(ex, "Find Nearby Places")[1],
                           Purpose, now),
                       Some(Text(<<"Compiling all analysis results">>)),
                       task[t].stepStart, now)
           tk == settled(t, "Compile Comprehensive Analysis", step, <<>>)
       IN  Finish(t, tk, finishWith(Get(tk.execution), step, now))
    /\ UNCHANGED <<travelPlans, keys, now>>

\* ------------------------------------------------------ the execution store

\* a purge that deletes the completed executions and keeps the failed ones
\* (the variant C28 excludes)
clearOnlyCompleted ==
    /\ executions' = [id \in {i \in DOMAIN executions :
                                executions[i].status # "completed"}
                      |-> executions[id]]
    /\ UNCHANGED <<travelPlans, keys, now, task>>

\* clearCompletedExecutions(): delete every completed or failed execution
clearCompletedExecutions ==
    /\ executions' = [id \in {i \in DOMAIN executions :
                                executions[i].status \notin {"completed", "failed"}}
                      |-> executions[id]]
    /\ UNCHANGED <<travelPlans, keys, now, task>>

\* store.get(id) || null
getExecutionOf(store, id) == IF id \in DOMAIN store THEN Some(store[id]) ELSE None

\* getExecution(id): this.executions.get(id) || null
getExecution(id) == getExecutionOf(executions, id)

\* getAllExecutions(): Array.from(this.executions.values())
getAllExecutions == {executions[id] : id \in DOMAIN executions}

\* ------------------------------------------------------------------- clock

\* time passes
Tick ==
    /\ now < MaxClock
    /\ now' = now + 1
    /\ UNCHANGED <<executions, travelPlans, keys, task>>

\* ------------------------------------------------------------ specification

Next ==
    \/ \E t \in DOMAIN task : executeLocationWorkflow(t)
    \/ \E t \in DOMAIN task : LocationValidateSettled(t)
    \/ \E t \in DOMAIN task : LocationLocationSettled(t)
    \/ \E t \in DOMAIN task : executeWeatherWorkflow(t)
    \/ \E t \in DOMAIN task : WeatherLocationSettled(t)
    \/ \E t \in DOMAIN task : WeatherWeatherSettled(t)
    \/ \E t \in DOMAIN task : executeTravelPlanningWorkflow(t)
    \/ \E t \in DOMAIN task : TravelLocationSettled(t)
    \/ \E t \in DOMAIN task : TravelForecastSettled(t)
    \/ \E t \in DOMAIN task : TravelRecommendationsSettled(t)
    \/ \E t \in DOMAIN task : TravelPlanSettled(t)
    \/ \E t \in DOMAIN task : executeLocationAnalysisWorkflow(t)
    \/ \E t \in DOMAIN task : AnalysisLocationSettled(t)
    \/ \E t \in DOMAIN task : AnalysisInsightsSettled(t)
    \/ \E t \in DOMAIN task : AnalysisRiskSettled(t)
    \/ \E t \in DOMAIN task : AnalysisNearbySettled(t)
    \/ \E t \in DOMAIN task : AnalysisCompileSettled(t)
    \/ clearCompletedExecutions
    \/ Tick

Spec == Init /\ [][Next]_vars

\* the continuation of invocation t after the step it awaits has settled
Settles(t) ==
    \/ LocationValidateSettled(t)
    \/ LocationLocationSettled(t)
    \/ WeatherLocationSettled(t)
    \/ WeatherWeatherSettled(t)
    \/ TravelLocationSettled(t)
    \/ TravelForecastSettled(t)
    \/ TravelRecommendationsSettled(t)
    \/ TravelPlanSettled(t)
    \/ AnalysisLocationSettled(t)
    \/ AnalysisInsightsSettled(t)
    \/ AnalysisRiskSettled(t)
    \/ AnalysisNearbySettled(t)
    \/ AnalysisCompileSettled(t)

\* every awaited call settles (a response, an error or the agent's timeout)
\* and the event loop then runs the continuation of the await
SpecFair == Spec /\ \A t \in Tasks : WF_vars(Settles(t))

\* ------------------------------------------------------------ the API surface

\* A client of the GraphQL API: it runs a workflow mutation (invocation 1, on
\* the engine the mutation resolver builds), reads the id of the execution it
\* got back, and later sends the getWorkflowExecution query for an id.
ClientTask == [pc |-> "client", wf |-> "getWorkflowExecution"]

\* an id no execution was produced under
AbsentId == [prefix |-> "exec", time |-> 0, rand |-> 0]

InitAPI ==
    /\ executions = EmptyMap
    /\ travelPlans = EmptyMap
    /\ keys \in KeySets
    /\ now = 0
    /\ task = [t \in Tasks \cup {Cardinality(Tasks) + 1} |->
                  IF t \in Tasks THEN IdleTask ELSE ClientTask]

\* Query.getWorkflowExecution(id): the resolver builds a WorkflowEngine of its
\* own, whose execution store is a new, empty Map, and asks it for the id
getWorkflowExecution(q) ==
    /\ task[q].pc = "client"
    /\ \E id \in {Get(task[t].execution).id :
                     t \in {u \in DOMAIN task : task[u].pc = "done"}}
                \cup {AbsentId} :
         LET workflowEngine == EmptyMap
         IN  task' = [task EXCEPT ![q] =
                 [pc |-> "answered", wf |-> "getWorkflowExecution", id |-> id,
                  answer |-> getExecutionOf(workflowEngine, id)]]
    /\ UNCHANGED <<executions, travelPlans, keys, now>>

\* the clientIP of createContext when the request carries no client header
Loopback == [text |-> "127.0.0.1", sep |-> ".",
             groups |-> << <<1, 2, 7>>, <<0>>, <<0>>, <<1>> >>]

\* the public and private methods the class WorkflowEngine declares
WorkflowEngineMethods ==
    {"executeLocationWorkflow", "executeWeatherWorkflow",
     "executeTravelPlanningWorkflow", "executeLocationAnalysisWorkflow",
     "executeStep", "getExecution", "generateExecutionId", "getAllExecutions",
     "clearCompletedExecutions"}

\* workflowEngine[method](...) for a method the object does not have: the
\* call throws a TypeError before anything of the engine runs
callEngine(method) ==
    IF method \in WorkflowEngineMethods
    THEN Return(method)
    ELSE Throw(<<"workflowEngine.", method, " is not a function">>)

\* the body of the try block of Mutation.executeAITravelPlanningWorkflow
aiTravelPlanningBody(ip, destination, hasAgent, hasKey, clientIP) ==
    IF ~hasAgent THEN Throw(<<"AI Travel Agent not available">>)
    ELSE IF ~hasKey THEN Throw(<<"OpenAI ", "API key not configured">>)
    ELSE LET targetIP == IF IsSet(ip) THEN ip ELSE clientIP
         IN  IF ~IsSet(targetIP) /\ ~IsSet(destination)
             THEN Throw(<<"Either IP address or destination must be provided">>)
             ELSE callEngine("executeAITravelPlanningWorkflow")

\* catch (error): throw new Error(`Failed to execute AI travel planning
\* workflow: ${error.message}`)
aiTravelPlanningOutcome(ip, destination, hasAgent, hasKey, clientIP) ==
    LET r == aiTravelPlanningBody(ip, destination, hasAgent, hasKey, clientIP)
    IN  IF r.kind = "return" THEN r
        ELSE Throw(<<"Failed to execute AI travel planning workflow: ">>
                   \o errorMessage(r))

\* Mutation.executeAITravelPlanningWorkflow, sent by the client; clientIP is
\* always set by createContext (to '127.0.0.1' without a client header)
executeAITravelPlanningWorkflow(q) ==
    /\ task[q].pc = "client"
    /\ \E in \in TravelInputs, hasAgent \in BOOLEAN :
         task' = [task EXCEPT ![q] =
             [pc |-> "mutated", wf |-> "executeAITravelPlanningWorkflow",
              input |-> in, hasAgent |-> hasAgent,
              outcome |-> aiTravelPlanningOutcome(in.ip, in.destination,
                              hasAgent, keys.openai, Some(Loopback))]]
    /\ UNCHANGED <<executions, travelPlans, keys, now>>

\* Subscription.workflowUpdates is subscribed to, for the id of an execution
\* the client was returned or for another id: the generator builds a
\* WorkflowEngine of its own (`store` is its execution store, a new Map),
\* reads the clock and goes to sleep for the first 2000 ms
workflowUpdatesSubscribe(q) ==
    /\ task[q].pc = "client"
    /\ \E id \in {Get(task[t].execution).id :
                     t \in {u \in DOMAIN task : task[u].pc = "done"}}
                \cup {AbsentId} :
         task' = [task EXCEPT ![q] =
             [pc |-> "sleeping", wf |-> "workflowUpdates", workflowId |-> id,
              store |-> EmptyMap, lastUpdate |-> now, yielded |-> <<>>,
              polled |-> FALSE]]
    /\ UNCHANGED <<executions, travelPlans, keys, now>>

\* the setTimeout of the polling loop fires
workflowUpdatesTimer(q) ==
    /\ task[q].pc = "sleeping"
    /\ task' = [task EXCEPT ![q].pc = "polling"]
    /\ UNCHANGED <<executions, travelPlans, keys, now>>

\* one turn of the polling loop after the sleep: yield the execution when it
\* was completed after the last update, break when it is completed or failed,
\* sleep again otherwise
workflowUpdatesPoll(q) ==
    /\ task[q].pc = "polling"
    /\ LET execution == getExecutionOf(task[q].store, task[q].workflowId)
           fresh == /\ IsSet(execution)
                    /\ IsSet(Get(execution).completedAt)
                    /\ Get(Get(execution).completedAt) > task[q].lastUpdate
           stop == /\ IsSet(execution)
                   /\ Get(execution).status \in {"completed", "failed"}
       IN  task' = [task EXCEPT ![q] =
               [@ EXCEPT !.pc = IF stop THEN "stopped" ELSE "sleeping",
                         !.polled = TRUE,
                         !.lastUpdate = IF fresh THEN Get(Get(execution).completedAt)
                                        ELSE @,
                         !.yielded = IF fresh THEN Append(@, Get(execution)) ELSE @]]
    /\ UNCHANGED <<executions, travelPlans, keys, now>>

\* the clientIP createContext takes from the request's headers
ClientIPs == {Loopback, IP8888}

\* const targetIP = ip || context.clientIP
targetIPOf(ip, clientIP) == IF IsSet(ip) THEN ip ELSE clientIP

\* Mutation.executeTravelPlanningWorkflow(ip?, destination?, startDate,
\* endDate), sent by client q: the resolver builds an engine and runs
\* invocation t on it with ip: targetIP
MutationExecuteTravelPlanningWorkflow(q, t) ==
    /\ task[q].pc = "client" /\ CanStart(t)
    /\ \E args \in TravelInputs, clientIP \in ClientIPs, trip \in Trips, r \in Rand :
         LET targetIP == targetIPOf(args.ip, Some(clientIP))
         IN  task' = [task EXCEPT
                 ![q] = [pc |-> "called", wf |-> "executeTravelPlanningWorkflow",
                         args |-> args, clientIP |-> clientIP, invocation |-> t,
                         thrown |-> ~IsSet(targetIP) /\ ~IsSet(args.destination)],
                 ![t] = IF ~IsSet(targetIP) /\ ~IsSet(args.destination)
                        THEN @
                        ELSE travelPlanningStarted(@,
                                 [ip |-> targetIP, destination |-> args.destination],
                                 trip, r)]
    /\ UNCHANGED <<executions, travelPlans, keys, now>>

NextAPI ==
    \/ Next
    \/ \E q, t \in DOMAIN task : MutationExecuteTravelPlanningWorkflow(q, t)
    \/ \E q \in DOMAIN task : getWorkflowExecution(q)
    \/ \E q \in DOMAIN task : executeAITravelPlanningWorkflow(q)
    \/ \E q \in DOMAIN task : workflowUpdatesSubscribe(q)
    \/ \E q \in DOMAIN task : workflowUpdatesTimer(q)
    \/ \E q \in DOMAIN task : workflowUpdatesPoll(q)

SpecAPI == InitAPI /\ [][NextAPI]_vars

\* the timer of the subscription fires and the generator is resumed after it
workflowUpdatesLoop(q) == workflowUpdatesTimer(q) \/ workflowUpdatesPoll(q)

SpecAPIFair == SpecAPI /\ WF_vars(workflowUpdatesLoop(Cardinality(Tasks) + 1))

\* ------------------------------------------------- a reader of the store

\* A caller that holds the engine and asks it for executions by id while a
\* workflow runs on it: `reads` is what it asked, what it was answered, and
\* the store at that moment.
ReaderTask == [pc |-> "reader", wf |-> "getExecution", reads |-> <<>>]

InitRead ==
    /\ executions = EmptyMap
    /\ travelPlans = EmptyMap
    /\ keys \in KeySets
    /\ now = 0
    /\ task = [t \in Tasks \cup {Cardinality(Tasks) + 1} |->
                  IF t \in Tasks THEN IdleTask ELSE ReaderTask]

\* a read that takes the entry out of the store (the variant C22 excludes)
TakeExecution(q) ==
    /\ task[q].pc = "reader" /\ Len(task[q].reads) < MaxReads
    /\ \E id \in DOMAIN executions \cup {AbsentId} :
         /\ task' = [task EXCEPT ![q].reads =
                        Append(@, [id |-> id, answer |-> getExecution(id),
                                   store |-> executions])]
         /\ executions' = [i \in DOMAIN executions \ {id} |-> executions[i]]
    /\ UNCHANGED <<travelPlans, keys, now>>

\* getExecution(id) is called: return this.executions.get(id) || null
GetExecutionCalled(q) ==
    /\ task[q].pc = "reader" /\ Len(task[q].reads) < MaxReads
    /\ \E id \in DOMAIN executions \cup {AbsentId} :
         task' = [task EXCEPT ![q].reads =
                     Append(@, [id |-> id, answer |-> getExecution(id),
                                store |-> executions])]
    /\ UNCHANGED <<executions, travelPlans, keys, now>>

NextRead ==
    \/ Next
    \/ \E q \in DOMAIN task : GetExecutionCalled(q)

SpecRead == InitRead /\ [][NextRead]_vars

\* ------------------------------------------- two invocations on one engine

\* the engine is asked for a second workflow while the first is in flight:
\* both invocations share the engine's execution store, clock and credentials.
\* The text-completion credential is left out: it multiplies the answers of
\* the analysis workflow and touches neither the identifiers nor the store.
InitConcurrent ==
    /\ executions = EmptyMap
    /\ travelPlans = EmptyMap
    /\ keys \in {k \in KeySets : ~k.openai}
    /\ now = 0
    /\ task = [t \in Tasks \cup {Cardinality(Tasks) + 1} |-> IdleTask]

SpecConcurrent == InitConcurrent /\ [][Next]_vars

\* ------------------------------------------------- executeStep on its own

\* executeStep applied to the kinds of operation there are: one that resolves
\* with its output, one that rejects with an Error, one that rejects with a
\* value that is no Error and has no message (Promise.reject()); the failure is
\* raised either synchronously, before the operation first awaits, or later.
StepNames == {"Validate IP Address", "Get Location from IP"}
StepInputs == {None, Some(Text(<<"8.8.8.8">>))}
StepOutcomes ==
    {Return(Text(<<"IP ", "8.8.8.8", " is valid">>)),
     Return(JSONstringify(LocationOf(IP8888, GeoFull))),
     Throw(<<"Invalid IP address: ", "999.999.999.999">>),
     Throw(<<"IP geolocation ", "API key not configured">>),
     ThrowValue}

InitStep ==
    /\ executions = EmptyMap
    /\ travelPlans = EmptyMap
    /\ keys = [geo |-> TRUE, weather |-> TRUE, openai |-> TRUE]
    /\ now = 0
    /\ task = [t \in Tasks |-> [pc |-> "idle"]]

\* executeStep is called; an operation that settles before it first awaits is
\* caught in the same segment
CallExecuteStep(t) ==
    /\ task[t].pc = "idle"
    /\ \E name \in StepNames, input \in StepInputs, outcome \in StepOutcomes,
          raised \in {"synchronously", "asynchronously"} :
          task' = [task EXCEPT ![t] =
              IF raised = "synchronously"
              THEN [pc |-> "returned", name |-> name, input |-> input,
                    outcome |-> outcome, raised |-> raised, startTime |-> now,
                    step |-> executeStep(name, outcome, input, now, now)]
              ELSE [pc |-> "running", name |-> name, input |-> input,
                    outcome |-> outcome, raised |-> raised, startTime |-> now]]
    /\ UNCHANGED <<executions, travelPlans, keys, now>>

\* the operation's promise settles and executeStep returns the step
ExecuteStepSettled(t) ==
    /\ task[t].pc = "running"
    /\ task' = [task EXCEPT ![t] =
           [pc |-> "returned", name |-> @.name, input |-> @.input,
            outcome |-> @.outcome, raised |-> @.raised, startTime |-> @.startTime,
            step |-> executeStep(@.name, @.outcome, @.input, @.startTime, now)]]
    /\ UNCHANGED <<executions, travelPlans, keys, now>>

\* Date.now() reads the system's wall clock, which is not monotonic: the host
\* may set it back (a time synchronisation step) while an operation is awaited
ClockSetBack ==
    /\ now > 0
    /\ now' = now - 1
    /\ UNCHANGED <<executions, travelPlans, keys, task>>

NextStep ==
    \/ \E t \in DOMAIN task : CallExecuteStep(t)
    \/ \E t \in DOMAIN task : ExecuteStepSettled(t)
    \/ Tick
    \/ ClockSetBack

SpecStep == InitStep /\ [][NextStep]_vars

\* ------------------------------------------------------------------ claims

\* the names of the steps an execution has recorded, in order
stepNames(execution) ==
    [i \in 1..Len(execution.steps) |-> execution.steps[i].name]

\* the functions the invocation has called so far
called(t) == {task[t].calls[i].fn : i \in 1..Len(task[t].calls)}

\* the invocation has returned its execution
Returned(t) == task[t].pc = "done"

\* every answer the Geolocation Collaborator gave this invocation was a
\* location (the agent's getLocation resolved)
GeolocationHealthy(t) ==
    \A i \in 1..Len(task[t].answers) :
        getLocation(Get(task[t].ip), task[t].answers[i]).kind = "return"

\* The textual forms of an IP address.  IPv4: four decimal numbers 0..255
\* separated by dots.  IPv6 (RFC 4291, section 2.2): eight groups of one to
\* four hexadecimal digits separated by colons, or fewer groups with one "::"
\* in place of the zero groups left out.
decimalValue(g) ==
    IF Len(g) = 1 THEN g[1]
    ELSE IF Len(g) = 2 THEN 10 * g[1] + g[2]
    ELSE 100 * g[1] + 10 * g[2] + g[3]
decimalOctet(g) ==
    /\ Len(g) \in 1..3
    /\ \A j \in 1..Len(g) : g[j] \in 0..9
    /\ decimalValue(g) <= 255
hexGroup(g) == Len(g) \in 1..4 /\ \A j \in 1..Len(g) : g[j] \in 0..15
dottedQuad(ip) ==
    /\ ip.sep = "."
    /\ Len(ip.groups) = 4
    /\ \A i \in 1..4 : decimalOctet(ip.groups[i])
rfc4291(ip) ==
    /\ ip.sep = ":"
    /\ \/ /\ Len(ip.groups) = 8
          /\ \A i \in 1..8 : hexGroup(ip.groups[i])
       \/ /\ Len(ip.groups) \in 3..8
          /\ \E k \in 2..(Len(ip.groups) - 1) :
                /\ ip.groups[k] = <<>>
                /\ \A i \in (1..Len(ip.groups)) \ {k} : hexGroup(ip.groups[i])
SyntacticallyValidIP(ip) == dottedQuad(ip) \/ rfc4291(ip)

\* what C1 promises of a returned execution of the location workflow
LocationCompleted(e) ==
    /\ e.status = "completed"
    /\ stepNames(e) = <<"Validate IP Address", "Get Location from IP">>
    /\ \A i \in 1..Len(e.steps) : e.steps[i].status = "completed"
    /\ IsSet(e.result)
    /\ e.result = e.steps[2].output
    /\ Get(e.result).kind = "json"

\* C1: for every syntactically valid IP, with the geolocation credential
\* configured and the Geolocation Collaborator answering successfully,
\* executeLocationWorkflow(ip) returns a completed Execution with exactly the
\* two completed steps 'Validate IP Address' and 'Get Location from IP', and
\* its result is the serialized output of the geolocation step.
C1_ValidIPCompletes ==
    \A t \in DOMAIN task :
        (/\ task[t].wf = "location" /\ Returned(t)
         /\ SyntacticallyValidIP(Get(task[t].ip))
         /\ keys.geo
         /\ GeolocationHealthy(t))
        => LocationCompleted(Get(task[t].execution))

\* the part of C1 the engine does keep: the same for the IPs that
\* isValidAddress accepts
C1_AcceptedIPCompletes ==
    \A t \in DOMAIN task :
        (/\ task[t].wf = "location" /\ Returned(t)
         /\ isValidAddress(Get(task[t].ip))
         /\ keys.geo
         /\ GeolocationHealthy(t))
        => LocationCompleted(Get(task[t].execution))

\* where C1 breaks: a syntactically valid IP, the credential configured, no
\* failed answer of the collaborator, and the execution came back failed at
\* the validation step
C1_ValidIPRejected ==
    \E t \in DOMAIN task :
        /\ task[t].wf = "location" /\ Returned(t)
        /\ SyntacticallyValidIP(Get(task[t].ip))
        /\ ~isValidAddress(Get(task[t].ip))
        /\ keys.geo
        /\ GeolocationHealthy(t)
        /\ Get(task[t].execution).status = "failed"
        /\ stepNames(Get(task[t].execution)) = <<"Validate IP Address">>

\* C2: for every IP string that isValidAddress rejects, executeLocationWorkflow
\* returns a failed Execution with exactly one step, the failed 'Validate IP
\* Address'; 'Get Location from IP' never appears among the steps and the
\* geolocation lookup is never called.
C2_RejectedIPStopsAtValidation ==
    \A t \in DOMAIN task :
        (task[t].wf = "location" /\ ~isValidAddress(Get(task[t].ip)))
        => /\ "Get Location from IP" \notin task[t].inflight
           /\ \A i \in 1..Len(Get(task[t].execution).steps) :
                 Get(task[t].execution).steps[i].name # "Get Location from IP"
           /\ called(t) \cap {"locationAgent.getLocation", "axios.get"} = {}
           /\ task[t].answers = <<>>
           /\ Returned(t) =>
                LET e == Get(task[t].execution)
                IN  /\ e.status = "failed"
                    /\ stepNames(e) = <<"Validate IP Address">>
                    /\ e.steps[1].status = "failed"
                    /\ e.error = e.steps[1].error

\* "999.999.999.999" was given and the execution came back
C2_RejectedIPReturned ==
    \E t \in DOMAIN task :
        /\ task[t].wf = "location" /\ Returned(t)
        /\ task[t].ip = Some(IP999)
        /\ ~isValidAddress(IP999)
        /\ Get(task[t].execution).status = "failed"

\* a message holds the text fragment
Contains(message, fragment) == \E i \in 1..Len(message) : message[i] = fragment

\* every execution there is: returned, in the store, or still being built
Observable ==
    {Get(task[t].execution) : t \in {u \in DOMAIN task : Returned(u)}}
    \cup {executions[id] : id \in DOMAIN executions}
InProgress ==
    {Get(task[t].execution) :
        t \in {u \in DOMAIN task : task[u].pc \notin {"idle", "done"}}}

Terminal(e) == e.status \in {"completed", "failed"}

\* C3: in the weather, travel-planning and location-analysis workflows, when
\* the 'Get Location from IP' step fails for any reason (a missing geolocation
\* credential included, whose message contains 'API key not configured'), the
\* Execution ends failed with that step's error verbatim, that step is its
\* last and only step, and no later step or collaborator is run.
C3_LocationFailureShortCircuits ==
    \A t \in DOMAIN task :
        (/\ task[t].wf \in {"weather", "travel", "analysis"}
         /\ \E i \in 1..Len(Get(task[t].execution).steps) :
               /\ Get(task[t].execution).steps[i].name = "Get Location from IP"
               /\ Get(task[t].execution).steps[i].status = "failed")
        => LET e == Get(task[t].execution)
           IN  /\ Returned(t)
               /\ e.status = "failed"
               /\ stepNames(e) = <<"Get Location from IP">>
               /\ e.error = e.steps[1].error
               /\ ~keys.geo => Contains(Get(e.error), "API key not configured")
               /\ task[t].inflight = {}
               /\ called(t) \subseteq {"locationAgent.getLocation", "axios.get"}
               /\ Len(task[t].answers) <= 1

\* executeWeatherWorkflow("8.8.8.8") without the geolocation credential came back
C3_MissingKeyReturned ==
    \E t \in DOMAIN task :
        /\ task[t].wf = "weather" /\ Returned(t)
        /\ task[t].ip = Some(IP8888)
        /\ ~keys.geo
        /\ Get(task[t].execution).status = "failed"
        /\ Len(Get(task[t].execution).steps) = 1

\* C4: whatever the input and whatever the collaborators do, every
\* execute*Workflow returns an Execution in a terminal status; a failure never
\* escapes: an invocation is either waiting for its one step in flight or has
\* returned, and the handler of a failure raised between two steps turns any
\* thrown value into a failed, time-stamped Execution.
C4_AlwaysReturnsTerminal ==
    \A t \in DOMAIN task :
        /\ task[t].pc \in {"idle", "done"} \/ Cardinality(task[t].inflight) = 1
        /\ task[t].pc = "idle" <=> ~IsSet(task[t].execution)
        /\ Returned(t) => Terminal(Get(task[t].execution))
        /\ task[t].pc \notin {"idle", "done"} =>
              \A thrown \in {SyntaxError, ThrowValue} :
                  LET e == catchExecution(Get(task[t].execution), thrown, now)
                  IN  /\ e.status = "failed"
                      /\ IsSet(e.error) /\ IsSet(e.completedAt)
                      /\ e.steps = Get(task[t].execution).steps

\* a workflow came back after its collaborator answered with a malformed body
C4_ReturnedAfterMalformedAnswer ==
    \E t \in DOMAIN task :
        /\ Returned(t)
        /\ \E i \in 1..Len(task[t].answers) : task[t].answers[i] = GeoMalformed
        /\ Get(task[t].execution).status = "failed"

\* C5: in every reachable state a completed Execution has a result and no
\* error, a failed Execution has an error and no result, and a pending or
\* running Execution has neither.
C5_ResultXorError ==
    \A e \in Observable \cup InProgress :
        /\ e.status = "completed" => IsSet(e.result) /\ ~IsSet(e.error)
        /\ e.status = "failed" => IsSet(e.error) /\ ~IsSet(e.result)
        /\ e.status \in {"pending", "running"} => ~IsSet(e.result) /\ ~IsSet(e.error)
        /\ e.status \in {"pending", "running", "completed", "failed"}

\* a completed execution, with its result, is in the store
C5_CompletedStored ==
    \E id \in DOMAIN executions :
        /\ executions[id].status = "completed"
        /\ IsSet(executions[id].result)

\* C6: in every observable state (a returned Execution or one read from the
\* store) completedAt is set if and only if the status is completed or failed.
C6_CompletedAtIffTerminal ==
    /\ \A e \in Observable : IsSet(e.completedAt) <=> Terminal(e)
    /\ \A id \in DOMAIN executions :
          getExecution(id) = Some(executions[id])
          /\ (IsSet(executions[id].completedAt) <=> Terminal(executions[id]))

\* a failed execution was returned, time-stamped
C6_FailedStamped ==
    \E t \in DOMAIN task :
        /\ Returned(t)
        /\ Get(task[t].execution).status = "failed"
        /\ IsSet(Get(task[t].execution).completedAt)

\* C7: executeStep never throws: for an operation that fails, thrown
\* synchronously or rejected asynchronously, it returns a failed Step whose
\* error is the failure's message, or 'Unknown error' when the failure carries
\* no message; for an operation that succeeds it returns a completed Step with
\* the operation's output.
C7_StepReflectsOutcome ==
    \A t \in DOMAIN task :
        /\ task[t].pc \in {"idle", "running", "returned"}
        /\ task[t].pc = "returned" =>
              LET o == task[t].outcome
                  s == task[t].step
              IN  /\ s.name = task[t].name /\ s.input = task[t].input
                  /\ o.kind = "return" =>
                        /\ s.status = "completed"
                        /\ s.output = Some(o.value) /\ ~IsSet(s.error)
                  /\ o.kind = "throw" =>
                        /\ s.status = "failed"
                        /\ ~IsSet(s.output)
                        /\ s.error = Some(IF o.message # <<>> THEN o.message
                                          ELSE <<"Unknown error">>)

\* executeStep returned for a rejection with a message and the step is failed
C7_RejectionReturned ==
    \E t \in DOMAIN task :
        /\ task[t].pc = "returned"
        /\ task[t].raised = "asynchronously"
        /\ task[t].outcome = Throw(<<"IP geolocation ", "API key not configured">>)
        /\ task[t].step.status = "failed"

\* the fixed order of the steps of an invocation
StepOrder(tk) ==
    IF tk.wf = "location"
    THEN <<"Validate IP Address", "Get Location from IP">>
    ELSE IF tk.wf = "weather"
    THEN <<"Get Location from IP", "Get Weather for Location">>
    ELSE IF tk.wf = "travel"
    THEN (IF IsSet(tk.ip) THEN <<"Get Location from IP">> ELSE <<>>)
         \o <<"Get Weather Forecast", "Generate Travel Recommendations",
              "Create Travel Plan">>
    ELSE IF tk.wf = "analysis"
    THEN (IF IsSet(tk.ip) /\ (~IsSet(tk.city) \/ ~IsSet(tk.country))
          THEN <<"Get Location from IP">> ELSE <<>>)
         \o <<"Generate Location Insights", "Analyze Location Risks",
              "Find Nearby Places", "Compile Comprehensive Analysis">>
    ELSE <<>>

IsPrefix(s, q) == Len(s) <= Len(q) /\ \A i \in 1..Len(s) : s[i] = q[i]

\* the step in flight, as a sequence of at most one name
InFlight(tk) ==
    IF tk.inflight = {} THEN <<>> ELSE <<CHOOSE n \in tk.inflight : TRUE>>

\* the recorded steps and then the step in flight follow the fixed order, and
\* at most one step is in flight
Sequential(tk) ==
    /\ Cardinality(tk.inflight) <= 1
    /\ IsPrefix(stepNames(Get(tk.execution)) \o InFlight(tk), StepOrder(tk))

\* a step of an invocation: the array is kept or grows by one at the end, and
\* a step begins only when every step begun before it is in the array
AppendOnly(t) ==
    IsSet(task[t].execution) =>
        LET old == Get(task[t].execution).steps
            new == Get(task'[t].execution).steps
        IN  /\ Len(new) \in {Len(old), Len(old) + 1}
            /\ SubSeq(new, 1, Len(old)) = old
            /\ \A n \in task'[t].inflight \ task[t].inflight :
                  task[t].inflight \subseteq
                      {new[i].name : i \in 1..Len(new)}

\* C8: within one Execution the steps run one after another in the workflow's
\* fixed order: step N has settled and is in the steps array before step N+1
\* begins, no two steps are in flight at once, and the array only grows by
\* appending at its end.
C8_StepsSequentialAppendOnly ==
    /\ [](\A t \in DOMAIN task : IsSet(task[t].execution) => Sequential(task[t]))
    /\ [][\A t \in DOMAIN task : AppendOnly(t)]_vars

\* two steps are recorded and the third is in flight
C8_ThirdStepInFlight ==
    \E t \in DOMAIN task :
        /\ task[t].wf = "travel"
        /\ Len(Get(task[t].execution).steps) = 2
        /\ task[t].inflight = {"Create Travel Plan"}

\* C9: in the travel-planning workflow a failure of 'Get Weather Forecast' or
\* of 'Generate Travel Recommendations' is recorded on that step only: the
\* execution stays running, the remaining steps run, and the terminal status
\* is that of the final 'Create Travel Plan' step alone.
C9_BestEffortSteps ==
    \A t \in DOMAIN task :
        (/\ task[t].wf = "travel"
         /\ \E i \in 1..Len(Get(task[t].execution).steps) :
               Get(task[t].execution).steps[i].name = "Get Weather Forecast")
        => LET e == Get(task[t].execution)
               n == Len(e.steps)
           IN  /\ ~Returned(t) => e.status = "running" /\ task[t].inflight # {}
               /\ Returned(t) =>
                     /\ stepNames(e) = StepOrder(task[t])
                     /\ e.steps[n].name = "Create Travel Plan"
                     /\ e.status = e.steps[n].status
                     /\ e.status = "completed" => e.result = e.steps[n].output
                     /\ e.status = "failed" => e.error = e.steps[n].error

\* the forecast step failed and the execution completed all the same
C9_CompletedDespiteFailedForecast ==
    \E t \in DOMAIN task :
        /\ task[t].wf = "travel" /\ Returned(t)
        /\ \E i \in 1..Len(Get(task[t].execution).steps) :
              /\ Get(task[t].execution).steps[i].name = "Get Weather Forecast"
              /\ Get(task[t].execution).steps[i].status = "failed"
        /\ Get(task[t].execution).status = "completed"

\* every answer the Weather Collaborator gave this invocation was a reading
WeatherReachable(t) ==
    \A i \in 1..Len(task[t].answers) : task[t].answers[i].kind = "data"

\* C10: executeTravelPlanningWorkflow with a destination and no ip skips the
\* geolocation step (no 'Get Location from IP' step, no call of the
\* Geolocation Collaborator), asks the weather by the destination name, and
\* with a reachable Weather Collaborator ends completed with a result whose
\* destination is the given destination.
C10_DestinationWithoutIP ==
    \A t \in DOMAIN task :
        (task[t].wf = "travel" /\ ~IsSet(task[t].ip) /\ IsSet(task[t].destination))
        => LET e == Get(task[t].execution)
           IN  /\ "Get Location from IP" \notin task[t].inflight
               /\ \A i \in 1..Len(e.steps) : e.steps[i].name # "Get Location from IP"
               /\ called(t) \cap {"locationAgent.getLocation", "axios.get"} = {}
               /\ "weatherAgent.getWeather" \notin called(t)
               /\ keys.weather =>
                     \E i \in 1..Len(task[t].calls) :
                         task[t].calls[i] =
                             [fn |-> "weatherAgent.getWeatherByCityName",
                              arg |-> Get(task[t].destination)]
               /\ (Returned(t) /\ WeatherReachable(t)) =>
                     /\ e.status = "completed"
                     /\ JSONparse(e.result).destination = <<Get(task[t].destination)>>

\* the plan for "Paris, France" came back after the weather was read
C10_ParisPlanned ==
    \E t \in DOMAIN task :
        /\ task[t].wf = "travel" /\ Returned(t)
        /\ ~IsSet(task[t].ip)
        /\ task[t].destination = Some("Paris, France")
        /\ task[t].answers = <<WxClear>>
        /\ Get(task[t].execution).status = "completed"

\* the calls the invocation made of the function fn, in order
callsOf(t, fn) == SelectSeq(task[t].calls, LAMBDA c : c.fn = fn)

\* C11: in the weather workflow, when the geolocation step completes, the
\* Weather Collaborator is called with exactly the latitude and longitude in
\* that step's output (the ones the Geolocation Collaborator answered), and
\* the Execution ends with exactly 2 steps, its result the weather step's
\* output (completed) or its error the weather step's error (failed).
C11_WeatherByResolvedCoordinates ==
    \A t \in DOMAIN task :
        (/\ task[t].wf = "weather"
         /\ Len(Get(task[t].execution).steps) >= 1
         /\ Get(task[t].execution).steps[1].status = "completed")
        => LET e == Get(task[t].execution)
               location == JSONparse(e.steps[1].output)
               answered == LocationOf(Get(task[t].ip), task[t].answers[1])
               made == callsOf(t, "weatherAgent.getWeather")
           IN  /\ e.steps[1].name = "Get Location from IP"
               /\ location = answered
               /\ Len(made) = (IF keys.weather THEN 1 ELSE 0)
               /\ \A i \in 1..Len(made) :
                     made[i].arg = <<answered.latitude, answered.longitude>>
               /\ callsOf(t, "weatherAgent.getWeatherByCityName") = <<>>
               /\ Returned(t) =>
                     /\ stepNames(e) = <<"Get Location from IP",
                                         "Get Weather for Location">>
                     /\ e.status = e.steps[2].status
                     /\ e.status = "completed" => e.result = e.steps[2].output
                     /\ e.status = "failed" => e.error = e.steps[2].error

\* the weather for the coordinates of "8.8.8.8" came back
C11_WeatherReturned ==
    \E t \in DOMAIN task :
        /\ task[t].wf = "weather" /\ Returned(t)
        /\ task[t].answers = <<GeoFull, WxClear>>
        /\ callsOf(t, "weatherAgent.getWeather")
              = <<[fn |-> "weatherAgent.getWeather", arg |-> <<37, -122>>]>>
        /\ Get(task[t].execution).status = "completed"

\* the executions the workflows have produced so far under the id
producedUnder(id) ==
    {Get(task[t].execution) :
        t \in {u \in DOMAIN task :
                  task[u].pc = "done" /\ Get(task[u].execution).id = id}}

\* C12: once an Execution has finished it is retrievable by its id:
\* getExecution(id) returns exactly the Execution produced under that id, and
\* null, without throwing, for an id that is absent; this for a caller that
\* triggered the workflow through the API surface and later queries the id.
C12_FinishedIsRetrievable ==
    \A q \in DOMAIN task :
        task[q].pc = "answered"
        => IF producedUnder(task[q].id) = {}
           THEN task[q].answer = None
           ELSE /\ IsSet(task[q].answer)
                /\ Get(task[q].answer) \in producedUnder(task[q].id)

\* where C12 breaks: the client holds a finished execution and its query for
\* that id was answered null
C12_QueryFoundNothing ==
    \E q \in DOMAIN task :
        /\ task[q].pc = "answered"
        /\ producedUnder(task[q].id) # {}
        /\ task[q].answer = None

\* the part of C12 that holds: on the engine that ran the workflow, until
\* the store is purged, and for an absent id
C12_RetrievableOnTheSameEngine ==
    /\ getExecution(AbsentId) = None
    /\ \A id \in DOMAIN executions :
          /\ getExecution(id) = Some(executions[id])
          /\ executions[id] \in producedUnder(id)

\* the ids under which the store holds a completed or failed execution
terminalIds == {id \in DOMAIN executions : Terminal(executions[id])}

\* the invocations that have started and not yet returned
running == {t \in DOMAIN task : task[t].pc \notin {"idle", "done"}}

\* the step is the return of invocation t
Returns(t) == task[t].pc # "done" /\ task'[t].pc = "done"

\* C13: after clearCompletedExecutions(), getExecution(id) returns not-found
\* for every id whose Execution was completed or failed before the purge, and
\* for every id whose Execution was still running the answer of
\* getExecution(id) is the same as before the purge; an Execution that
\* finishes after the purge is stored and retrievable afterwards.
C13_PurgeKeepsRunningIds ==
    [][/\ clearCompletedExecutions
          => /\ \A id \in terminalIds : getExecutionOf(executions', id) = None
             /\ \A t \in running :
                   getExecutionOf(executions', Get(task[t].execution).id)
                       = getExecution(Get(task[t].execution).id)
       /\ \A t \in DOMAIN task :
             Returns(t)
             => getExecutionOf(executions', Get(task'[t].execution).id)
                    = task'[t].execution]_vars

\* where C13 breaks: a running invocation was given the id of an Execution
\* that is terminal and in the store, so that getExecution answers for the
\* running id, and the purge takes that answer away
C13_RunningIdHasTerminalEntry ==
    \E t \in running : Get(task[t].execution).id \in terminalIds

\* the part of C13 that holds: the purge removes every terminal Execution, an
\* id under which the store held none answers as before, and an Execution
\* that finishes afterwards is stored and retrievable
C13_PurgeLosesNothingRunning ==
    [][/\ clearCompletedExecutions
          => /\ \A id \in terminalIds : getExecutionOf(executions', id) = None
             /\ \A t \in running :
                   LET id == Get(task[t].execution).id
                   IN  id \notin terminalIds
                       => getExecutionOf(executions', id) = getExecution(id)
       /\ \A t \in DOMAIN task :
             Returns(t)
             => getExecutionOf(executions', Get(task'[t].execution).id)
                    = task'[t].execution]_vars

\* the second invocation was in flight when the first completed, the store was
\* purged after that, and the second has since finished and is in the store
C13_FinishedAfterPurge ==
    \E t, u \in DOMAIN task :
        /\ Returned(t) /\ Returned(u)
        /\ LET a == Get(task[t].execution)
               b == Get(task[u].execution)
           IN  /\ a.id # b.id
               /\ b.startedAt < Get(a.completedAt)
               /\ getExecution(a.id) = None
               /\ getExecution(b.id) = Some(b)

\* the invocations that have started, running or returned
started == {t \in DOMAIN task : task[t].pc # "idle"}

\* C14: for any number of execute*Workflow invocations started concurrently
\* on one engine, the same millisecond included, no two resulting Executions
\* have the same identifier, so no Execution's store entry is overwritten by
\* another Execution.
C14_IdentifiersUnique ==
    \A t, u \in started :
        t # u => Get(task[t].execution).id # Get(task[u].execution).id

\* where C14 breaks: two invocations started at the same clock reading drew
\* the same suffix, both returned, and the store holds the later one's
\* Execution under the id the earlier one was returned with
C14_StoreEntryOverwritten ==
    \E t, u \in DOMAIN task :
        /\ t # u /\ Returned(t) /\ Returned(u)
        /\ LET a == Get(task[t].execution)
               b == Get(task[u].execution)
           IN  /\ a.id = b.id
               /\ a # b
               /\ getExecution(a.id) = Some(b)

\* C15: once an Execution has reached completed or failed, no engine
\* operation (steps of other in-flight workflows, later execute*Workflow
\* calls, getExecution, getAllExecutions) changes its status, steps, result,
\* error or completedAt; the only thing that can happen to it afterwards is
\* removal from the store by clearCompletedExecutions.
C15_TerminalNeverChanges ==
    [][\A id \in terminalIds :
          IF id \in DOMAIN executions'
          THEN executions'[id] = executions[id]
          ELSE clearCompletedExecutions]_vars

\* where C15 breaks: the Execution stored under an id was failed, and the
\* store now shows a completed one with other steps under that id
C15_FailedBecameCompleted ==
    \E t, u \in DOMAIN task :
        /\ Returned(t) /\ Returned(u)
        /\ LET a == Get(task[t].execution)
               b == Get(task[u].execution)
           IN  /\ a.id = b.id
               /\ a.status = "failed" /\ b.status = "completed"
               /\ Get(a.completedAt) < Get(b.completedAt)
               /\ getExecution(a.id) = Some(b)

\* the part of C15 that holds: a terminal store entry changes only by the
\* purge or by the return of an invocation that was given the same id
C15_ChangedOnlyByPurgeOrSameId ==
    [][\A id \in terminalIds :
          IF id \in DOMAIN executions'
          THEN \/ executions'[id] = executions[id]
               \/ \E t \in DOMAIN task :
                     Returns(t) /\ task'[t].execution = Some(executions'[id])
          ELSE clearCompletedExecutions]_vars

\* C16: every started Execution eventually reaches a terminal status, each
\* collaborator call settling: it ends by a short-circuited failure or after
\* its whole fixed step sequence, and no operation cancels it or leaves it
\* in status running for ever.
C16_StartedEventuallyTerminal ==
    /\ \A t \in Tasks :
          (task[t].pc # "idle")
              ~> /\ Returned(t)
                 /\ Terminal(Get(task[t].execution))
                 /\ \/ Get(task[t].execution).status = "failed"
                    \/ stepNames(Get(task[t].execution)) = StepOrder(task[t])
    /\ [][\A t \in Tasks :
             task[t].pc # "idle"
             => /\ task'[t].pc # "idle"
                /\ Get(task'[t].execution).id = Get(task[t].execution).id
                /\ Returned(t) => task'[t] = task[t]]_vars

\* a travel-planning Execution that ran its four steps, the forecast failing
\* on the way, and ended completed
C16_WholeSequenceRun ==
    \E t \in Tasks :
        /\ Returned(t) /\ task[t].wf = "travel"
        /\ Get(task[t].execution).status = "completed"
        /\ Len(Get(task[t].execution).steps) = 4
        /\ \E i \in 1..4 : Get(task[t].execution).steps[i].status = "failed"

\* C17: every Execution returned by any workflow of the engine (location,
\* weather, travel planning, location analysis), for any input, has at least
\* one step in its steps sequence, and the steps appear in the order in
\* which they were called.
C17_AtLeastOneStepInCallOrder ==
    \A t \in DOMAIN task :
        Returned(t)
        => /\ Len(Get(task[t].execution).steps) >= 1
           /\ IsPrefix(stepNames(Get(task[t].execution)), StepOrder(task[t]))

\* where C17 breaks: the location analysis was given neither an IP address
\* nor a city with a country, and returned a failed Execution without steps
C17_ReturnedWithoutSteps ==
    \E t \in DOMAIN task :
        /\ Returned(t) /\ task[t].wf = "analysis"
        /\ ~IsSet(task[t].ip)
        /\ ~IsSet(task[t].city) \/ ~IsSet(task[t].country)
        /\ Get(task[t].execution).status = "failed"
        /\ Get(task[t].execution).steps = <<>>

\* the part of C17 that holds: the steps are in call order in every returned
\* Execution, and only the location analysis returns one without steps
C17_StepsInCallOrder ==
    \A t \in DOMAIN task :
        Returned(t)
        => /\ IsPrefix(stepNames(Get(task[t].execution)), StepOrder(task[t]))
           /\ Get(task[t].execution).steps = <<>>
              => /\ task[t].wf = "analysis"
                 /\ ~IsSet(task[t].ip)
                 /\ ~IsSet(task[t].city) \/ ~IsSet(task[t].country)

\* the steps recorded so far in the executions in progress, returned or stored
recordedSteps ==
    UNION {{e.steps[i] : i \in 1..Len(e.steps)} : e \in Observable \cup InProgress}

\* C18: every Step recorded in an Execution is in status completed or failed
\* (never pending or running), has an output if and only if its status is
\* completed, and has an error message if and only if its status is failed.
C18_StepOutputXorError ==
    \A s \in recordedSteps :
        /\ s.status \in {"completed", "failed"}
        /\ IsSet(s.output) <=> s.status = "completed"
        /\ IsSet(s.error) <=> s.status = "failed"

\* an Execution in progress holds a failed step with its message and a
\* completed step with its output
C18_FailedAndCompletedRecorded ==
    \E e \in InProgress :
        /\ \E i \in 1..Len(e.steps) :
              e.steps[i].status = "failed" /\ IsSet(e.steps[i].error)
        /\ \E i \in 1..Len(e.steps) :
              e.steps[i].status = "completed" /\ IsSet(e.steps[i].output)

\* C19: every Step returned by executeStep has its duration set, on the
\* success path and on the failure path alike, and the duration is never
\* negative (it is the clock reading at settle minus the clock reading at
\* invocation start).
C19_DurationSetNeverNegative ==
    \A t \in DOMAIN task :
        task[t].pc = "returned"
        => /\ IsSet(task[t].step.duration)
           /\ Get(task[t].step.duration) >= 0

\* where C19 breaks: the clock was set back while the operation was awaited,
\* and the step came back with a negative duration
C19_NegativeDuration ==
    \E t \in DOMAIN task :
        /\ task[t].pc = "returned"
        /\ task[t].raised = "asynchronously"
        /\ Get(task[t].step.duration) < 0

\* the part of C19 that holds: the duration is set on both paths, and it is
\* zero when the operation failed before its first await
C19_DurationSetOnBothPaths ==
    \A t \in DOMAIN task :
        task[t].pc = "returned"
        => /\ IsSet(task[t].step.duration)
           /\ task[t].raised = "synchronously"
              => Get(task[t].step.duration) = 0

\* and while the clock only advances, as it does in Spec, no recorded step
\* has a negative duration
C19_NonNegativeWhileClockAdvances ==
    \A s \in recordedSteps : IsSet(s.duration) /\ Get(s.duration) >= 0

\* the credential the collaborator behind a call needs
credentialOfCall(fn) ==
    IF fn \in {"locationAgent.getLocation", "axios.get"} THEN <<"geo">>
    ELSE IF fn \in {"weatherAgent.getWeather", "weatherAgent.getWeatherByCityName"}
    THEN <<"weather">>
    ELSE IF fn \in {"aiLocationAgent.getLocationInsights",
                    "aiLocationAgent.getRiskAnalysis",
                    "aiLocationAgent.getNearbyPlaces"}
    THEN <<"openai">>
    ELSE <<>>

\* the credential the collaborator of a step needs
credentialOfStep(name) ==
    IF name = "Get Location from IP" THEN <<"geo">>
    ELSE IF name \in {"Get Weather for Location", "Get Weather Forecast"}
    THEN <<"weather">>
    ELSE IF name \in {"Generate Location Insights", "Analyze Location Risks",
                      "Find Nearby Places"}
    THEN <<"openai">>
    ELSE <<>>

\* C20: in every workflow, a step whose collaborator needs a credential
\* (geolocation, weather, text completion) that is not configured fails
\* before the collaborator is invoked: the collaborator is never called
\* without its credential, and the missing credential yields an ordinary
\* failed Step, never an exception out of the engine.
C20_NoCallWithoutCredential ==
    \A t \in DOMAIN task :
        /\ \A i \in 1..Len(task[t].calls) :
              LET c == credentialOfCall(task[t].calls[i].fn)
              IN  c # <<>> => keys[c[1]]
        /\ IsSet(task[t].execution)
           => \A i \in 1..Len(Get(task[t].execution).steps) :
                 LET s == Get(task[t].execution).steps[i]
                     c == credentialOfStep(s.name)
                 IN  (c # <<>> /\ ~keys[c[1]])
                     => /\ s.status = "failed"
                        /\ Contains(Get(s.error), "API key not configured")
        /\ Returned(t) => Terminal(Get(task[t].execution))

\* the weather credential is missing: the travel plan was made all the same,
\* with a failed forecast step and no call of the weather collaborator
C20_ForecastFailedWithoutCall ==
    \E t \in DOMAIN task :
        /\ Returned(t) /\ task[t].wf = "travel" /\ ~keys.weather
        /\ Get(task[t].execution).status = "completed"
        /\ \E i \in 1..Len(Get(task[t].execution).steps) :
              LET s == Get(task[t].execution).steps[i]
              IN  /\ s.name = "Get Weather Forecast" /\ s.status = "failed"
                  /\ Contains(Get(s.error), "API key not configured")
        /\ \A i \in 1..Len(task[t].calls) :
              credentialOfCall(task[t].calls[i].fn) # <<"weather">>
        /\ \E i \in 1..Len(task[t].calls) :
              task[t].calls[i].fn = "travelAgent.createPlan"

\* the best-effort steps of a workflow and its final synthesis step
BestEffort(wf) ==
    IF wf = "travel"
    THEN {"Get Weather Forecast", "Generate Travel Recommendations"}
    ELSE IF wf = "analysis"
    THEN {"Generate Location Insights", "Analyze Location Risks",
          "Find Nearby Places"}
    ELSE {}

Synthesis(wf) ==
    IF wf = "travel" THEN "Create Travel Plan"
    ELSE "Compile Comprehensive Analysis"

\* the step of the execution with this name has failed
failedStep(e, name) ==
    \E i \in 1..Len(e.steps) : e.steps[i].name = name /\ e.steps[i].status = "failed"

\* C21: in the workflows with best-effort steps (travel planning, location
\* analysis) the final synthesis step tolerates any combination of failed
\* predecessors: it takes a failed step's missing output as an empty
\* structure and never fails because a best-effort step failed, so the
\* Execution ends completed whichever subset of best-effort steps failed.
C21_SynthesisToleratesFailures ==
    \A t \in DOMAIN task :
        (Returned(t) /\ task[t].wf \in {"travel", "analysis"})
        => LET e == Get(task[t].execution)
               ran == \E i \in 1..Len(e.steps) : e.steps[i].name \in BestEffort(task[t].wf)
           IN  /\ e.status = "failed" => ~ran
               /\ ran =>
                    LET last == e.steps[Len(e.steps)]
                    IN  /\ last.name = Synthesis(task[t].wf)
                        /\ last.status = "completed"
                        /\ e.status = "completed" /\ e.result = last.output
                        /\ task[t].wf = "analysis" =>
                             LET v == JSONparse(e.result)
                             IN  failedStep(e, "Generate Location Insights")
                                 => /\ v.insights = "{}"
                                    /\ v.recommendations = <<>>
                                    /\ failedStep(e, "Analyze Location Risks")
                                       => v.riskAssessment = "{}"
                                    /\ failedStep(e, "Find Nearby Places")
                                       => v.nearbyPlaces = <<>>

\* the three best-effort steps of a location analysis failed and the analysis
\* was compiled all the same, from empty structures
C21_CompiledFromNothing ==
    \E t \in DOMAIN task :
        /\ Returned(t) /\ task[t].wf = "analysis"
        /\ \A n \in BestEffort("analysis") : failedStep(Get(task[t].execution), n)
        /\ Get(task[t].execution).status = "completed"
        /\ JSONparse(Get(task[t].execution).result).nearbyPlaces = <<>>

\* the callers that read the store
readers == {q \in DOMAIN task : task[q].pc = "reader"}

\* C22: getExecution is a pure read: called twice in a row for the same id
\* with no intervening mutation it returns identical records, and it never
\* adds, removes or changes any entry of the execution store.
C22_GetExecutionIsPureRead ==
    /\ [](\A q \in readers :
            \A i \in 1..(Len(task[q].reads) - 1) :
                LET a == task[q].reads[i]
                    b == task[q].reads[i + 1]
                IN  (a.id = b.id /\ a.store = b.store) => a.answer = b.answer)
    /\ [][\A q \in readers :
             Len(task'[q].reads) > Len(task[q].reads) => executions' = executions]_vars

\* the reader asked twice for the id of a stored execution, nothing happening
\* between, and was given the stored record both times
C22_ReadTwice ==
    \E q \in readers :
        /\ Len(task[q].reads) = 2
        /\ task[q].reads[1].id = task[q].reads[2].id
        /\ task[q].reads[1].store = task[q].reads[2].store
        /\ IsSet(task[q].reads[1].answer)
        /\ task[q].reads[2].answer = task[q].reads[1].answer
        /\ getExecution(task[q].reads[1].id) = task[q].reads[1].answer

\* the AI travel planning mutations the client has sent with the AI agent and
\* the text-completion credential available
aiMutations ==
    {q \in DOMAIN task : /\ task[q].pc = "mutated"
                         /\ task[q].hasAgent /\ keys.openai}

\* C23: the engine exposes executeAITravelPlanningWorkflow({ip?, destination?,
\* startDate, endDate, userProfile}), and invoking it, as the mutation of that
\* name does when the AI agent and the text-completion credential are
\* available, returns an Execution whose final synthesis step merges the plain
\* travel plan with the three AI artifacts into one result.
C23_AITravelPlanningReturnsExecution ==
    \A q \in aiMutations :
          /\ task[q].wf \in WorkflowEngineMethods
          /\ task[q].outcome.kind = "return"
          /\ Terminal(task[q].outcome.value)
          /\ IsSet(task[q].outcome.value.result)
             => {"travelPlan", "aiRecommendations", "itinerary", "insights"}
                   \subseteq DOMAIN JSONparse(task[q].outcome.value.result)

\* where C23 breaks: the mutation was sent with the agent and the credential
\* available, and it threw because the engine has no such method
C23_MutationThrew ==
    \E q \in aiMutations :
        /\ task[q].outcome.kind = "throw"
        /\ Contains(task[q].outcome.message, " is not a function")

\* two travel-planning invocations that were given the same inputs, got the
\* same collaborator answers, and both returned a plan
samePlanning(t, u) ==
    /\ t # u /\ Returned(t) /\ Returned(u)
    /\ task[t].wf = "travel" /\ task[u].wf = "travel"
    /\ task[t].ip = task[u].ip /\ task[t].destination = task[u].destination
    /\ task[t].trip = task[u].trip
    /\ task[t].answers = task[u].answers
    /\ Get(task[t].execution).status = "completed"
    /\ Get(task[u].execution).status = "completed"

\* the TravelPlan in the result of the invocation's Execution
planOf(t) == JSONparse(Get(task[t].execution).result)

\* a plan without the two fields createTravelPlan takes from the clock and
\* from Math.random
planContent(p) == [f \in DOMAIN p \ {"id", "createdAt"} |-> p[f]]

\* C24: plan synthesis is deterministic given its input: two createPlan calls
\* with the same input return equal TravelPlans, so two travel-planning
\* Executions run on the same inputs with the same collaborator answers have
\* equal results.
C24_EqualInputsEqualPlans ==
    \A t, u \in DOMAIN task : samePlanning(t, u) => planOf(t) = planOf(u)

\* C24 as amended: the two plans are equal in every field but id and createdAt
C24_EqualInputsEqualPlanContent ==
    \A t, u \in DOMAIN task :
        samePlanning(t, u) => planContent(planOf(t)) = planContent(planOf(u))

\* two plannings of the same trip with the same answers returned plans that
\* differ in their id and agree in the rest
C24_SameTripTwoIds ==
    \E t, u \in DOMAIN task :
        /\ samePlanning(t, u)
        /\ planOf(t).id # planOf(u).id
        /\ planContent(planOf(t)) = planContent(planOf(u))
        /\ Len(planOf(t).itinerary) > 0

\* the subscriptions for the id of an Execution that has finished
subscribedToFinished ==
    {q \in DOMAIN task : /\ task[q].wf = "workflowUpdates"
                         /\ producedUnder(task[q].workflowId) # {}}

\* C25: a workflowUpdates subscription for the id of an Execution that has
\* been (or later becomes) completed or failed eventually observes that
\* terminal status and stops polling; it does not poll for ever for a
\* workflow that has finished.
C25_SubscriptionStops ==
    \A q \in {Cardinality(Tasks) + 1} :
        (q \in subscribedToFinished) ~> (task[q].pc = "stopped")

\* where C25 breaks: the subscription has polled for the id of a finished
\* Execution, was told nothing, and sleeps towards the next poll
C25_PolledAndStillSleeping ==
    \E q \in subscribedToFinished :
        /\ task[q].polled /\ task[q].pc = "sleeping"
        /\ task[q].yielded = <<>>

\* what the code does: the subscription's own engine never holds an
\* execution, so it never yields and never stops
C25_NeverYieldsNeverStops ==
    \A q \in DOMAIN task :
        task[q].wf = "workflowUpdates"
        => task[q].pc # "stopped" /\ task[q].yielded = <<>>

\* the travel planning mutations called with a destination and no ip
destinationOnly ==
    {q \in DOMAIN task : /\ task[q].pc = "called"
                         /\ ~IsSet(task[q].args.ip)
                         /\ IsSet(task[q].args.destination)}

\* C26: when the executeTravelPlanningWorkflow mutation is called with a
\* destination and no ip argument, the engine is run without an ip whatever
\* the requesting client's own address is: no 'Get Location from IP' step is
\* executed, the weather is looked up by the destination name, and a
\* geolocation failure for the client's address cannot fail the Execution.
C26_DestinationOnlyIgnoresClientIP ==
    \A q \in destinationOnly :
        LET tk == task[task[q].invocation]
            e == Get(tk.execution)
        IN  /\ ~IsSet(tk.ip)
            /\ "Get Location from IP" \notin tk.inflight
            /\ \A i \in 1..Len(e.steps) : e.steps[i].name # "Get Location from IP"
            /\ \A i \in 1..Len(tk.calls) :
                  tk.calls[i].fn \notin {"locationAgent.getLocation", "axios.get",
                                         "weatherAgent.getWeather"}
            /\ tk.pc = "done" => e.status = "completed"

\* where C26 breaks: the destination was given without an ip, the engine
\* located the client's own address, the geolocation failed and with it the
\* Execution
C26_FailedOnClientAddress ==
    \E q \in destinationOnly :
        LET tk == task[task[q].invocation]
            e == Get(tk.execution)
        IN  /\ tk.pc = "done" /\ e.status = "failed"
            /\ tk.ip = Some(task[q].clientIP)
            /\ Len(e.steps) = 1
            /\ e.steps[1].name = "Get Location from IP"
            /\ e.steps[1].status = "failed"

\* the input the invocation gives its step `name`, where that input names
\* the invocation's own ip
ownInput(tk, s) ==
    s.name \in {"Get Location from IP"}
    => s.input = Some(Text(<<"IP: ", Get(tk.ip).text>>))

\* C27: when several workflow invocations are in flight on the same engine
\* and their steps interleave at collaborator calls, each returned Execution
\* contains only the steps of its own invocation, in its own workflow's fixed
\* order, and its result or error derives only from its own steps; no step,
\* result or error of one Execution ever appears in another.
C27_ExecutionsIsolated ==
    \A t \in DOMAIN task :
        Returned(t)
        => LET tk == task[t]
               e == Get(tk.execution)
           IN  /\ IsPrefix(stepNames(e), StepOrder(tk))
               /\ \A i \in 1..Len(e.steps) : ownInput(tk, e.steps[i])
               /\ e.status = "completed"
                  => /\ stepNames(e) = StepOrder(tk)
                     /\ e.result = e.steps[Len(e.steps)].output
                     /\ ~IsSet(e.error)
               /\ (e.status = "failed" /\ e.steps # <<>>)
                  => /\ ~IsSet(e.result)
                     /\ e.error \in {e.steps[Len(e.steps)].error,
                                     Some(errorMessage(SyntaxError))}

\* two invocations of different workflows on different addresses were in
\* flight together and both returned, one completed and one failed
C27_TwoInterleavedReturned ==
    \E t, u \in DOMAIN task :
        /\ Returned(t) /\ Returned(u)
        /\ task[t].wf # task[u].wf
        /\ IsSet(task[t].ip) /\ IsSet(task[u].ip) /\ task[t].ip # task[u].ip
        /\ Get(task[t].execution).status = "completed"
        /\ Get(task[u].execution).status = "failed"
        /\ Len(Get(task[t].execution).steps) >= 2
        /\ Get(task[u].execution).startedAt < Get(Get(task[t].execution).completedAt)
        /\ Get(task[t].execution).startedAt < Get(Get(task[u].execution).completedAt)

\* C28: the execution store only ever contains Executions in a terminal
\* status: an Execution is inserted at the moment it becomes completed or
\* failed and never earlier, so getExecution and getAllExecutions never
\* return a pending or running Execution, and immediately after
\* clearCompletedExecutions the store is empty.
C28_StoreHoldsOnlyTerminal ==
    /\ [](/\ \A e \in getAllExecutions : Terminal(e)
          /\ \A id \in DOMAIN executions :
                /\ Terminal(Get(getExecution(id)))
                /\ Get(getExecution(id)).id = id
          /\ \A t \in running : Get(task[t].execution) \notin getAllExecutions)
    /\ [][/\ clearCompletedExecutions => executions' = EmptyMap
          /\ \A id \in DOMAIN executions' :
                (id \notin DOMAIN executions \/ executions'[id] # executions[id])
                => \E t \in DOMAIN task :
                      Returns(t) /\ task'[t].execution = Some(executions'[id])
          /\ \A t \in DOMAIN task :
                Returns(t)
                => getExecutionOf(executions', Get(task'[t].execution).id)
                       = task'[t].execution]_vars

\* one invocation has returned and its failed Execution is in the store,
\* while the other is in flight and its running Execution is not
C28_StoredAndRunning ==
    \E t \in DOMAIN task, u \in running :
        /\ Returned(t)
        /\ Get(task[t].execution).status = "failed"
        /\ getExecution(Get(task[t].execution).id) = task[t].execution
        /\ Len(Get(task[u].execution).steps) >= 1
        /\ getExecution(Get(task[u].execution).id) = None

\* the invocations given an IP string that is not a well-formed address
givenInvalidIP ==
    {t \in DOMAIN task : /\ task[t].wf \in {"location", "weather", "travel", "analysis"}
                         /\ IsSet(task[t].ip)
                         /\ ~SyntacticallyValidIP(Get(task[t].ip))}

\* the request to api.ipgeolocation.io was issued by the invocation
geoRequested(t) == "axios.get" \in called(t)

\* the failed steps the execution of the invocation has recorded
failedSteps(t) ==
    {s \in {Get(task[t].execution).steps[i] :
               i \in 1..Len(Get(task[t].execution).steps)} : s.status = "failed"}

C29_FailedOnMissingKey ==
    \E t \in givenInvalidIP :
        /\ Returned(t) /\ ~keys.geo
        /\ \E s \in failedSteps(t) : ~Contains(Get(s.error), Get(task[t].ip).text)

\* ----------------------------------------- TravelAgent's store, called directly

\* getAllTravelPlans(): Array.from(this.travelPlans.values()), as the bag of
\* the plans and how many times each is listed
getAllTravelPlans ==
    [p \in {travelPlans[k] : k \in DOMAIN travelPlans} |->
        Cardinality({k \in DOMAIN travelPlans : travelPlans[k] = p})]

\* updateTravelPlan(id, input): createTravelPlan stores the new plan under a
\* fresh planId; the id and createdAt of that same object are then overwritten
\* and the object is stored under id as well
updateTravelPlan(plans, id, input, clock, r) ==
    IF id \notin DOMAIN plans THEN [value |-> None, plans |-> plans]
    ELSE LET existingPlan == plans[id]
             created == createTravelPlan(input, clock, r).value
             updatedPlan == [created EXCEPT !.id = id,
                                            !.createdAt = existingPlan.createdAt]
         IN  [value |-> Some(updatedPlan),
              plans |-> MapSet(MapSet(plans, created.id, updatedPlan),
                               id, updatedPlan)]

\* deleteTravelPlan(id): this.travelPlans.delete(id)
deleteTravelPlan(plans, id) ==
    [value |-> id \in DOMAIN plans,
     plans |-> [k \in (DOMAIN plans) \ {id} |-> plans[k]]]

\* the inputs and the ids the caller passes
PlanInputs == {planInput(Some("Paris, France"), None, 1, 3),
               planInput(None, None, 2, 3)}
PlanIds == {planIdOf(c, r) : c \in 0..MaxClock, r \in Rand}

\* the caller of the agent: its last call, the store before it, what it got
AgentTask ==
    [pc |-> "agent", wf |-> "travelAgent", op |-> "none", id |-> None,
     before |-> EmptyMap, result |-> None, deleted |-> None]

InitPlans ==
    /\ executions = EmptyMap
    /\ travelPlans = EmptyMap
    /\ keys \in {k \in KeySets : k.openai}
    /\ now = 0
    /\ task = [t \in Tasks |-> AgentTask]

AgentCreatePlan(q) ==
    /\ task[q].pc = "agent"
    /\ \E input \in PlanInputs, r \in Rand :
          LET answer == createPlan(input, now, r)
          IN  /\ travelPlans' = travelPlansAfter(travelPlans, answer)
              /\ task' = [task EXCEPT ![q] =
                    [@ EXCEPT !.op = "createPlan", !.id = None,
                              !.before = travelPlans, !.deleted = None,
                              !.result = Some(answer.value)]]
    /\ UNCHANGED <<executions, keys, now>>

AgentUpdateTravelPlan(q) ==
    /\ task[q].pc = "agent"
    /\ \E id \in PlanIds, input \in PlanInputs, r \in Rand :
          LET answer == updateTravelPlan(travelPlans, id, input, now, r)
          IN  /\ travelPlans' = answer.plans
              /\ task' = [task EXCEPT ![q] =
                    [@ EXCEPT !.op = "updateTravelPlan", !.id = Some(id),
                              !.before = travelPlans, !.deleted = None,
                              !.result = answer.value]]
    /\ UNCHANGED <<executions, keys, now>>

AgentDeleteTravelPlan(q) ==
    /\ task[q].pc = "agent"
    /\ \E id \in PlanIds :
          LET answer == deleteTravelPlan(travelPlans, id)
          IN  /\ travelPlans' = answer.plans
              /\ task' = [task EXCEPT ![q] =
                    [@ EXCEPT !.op = "deleteTravelPlan", !.id = Some(id),
                              !.before = travelPlans, !.result = None,
                              !.deleted = Some(answer.value)]]
    /\ UNCHANGED <<executions, keys, now>>

NextPlans ==
    \/ \E q \in DOMAIN task : AgentCreatePlan(q)
    \/ \E q \in DOMAIN task : AgentUpdateTravelPlan(q)
    \/ \E q \in DOMAIN task : AgentDeleteTravelPlan(q)
    \/ Tick

SpecPlans == InitPlans /\ [][NextPlans]_vars

\* the calls of updateTravelPlan just made, on an id the store had or not
updatedKnown ==
    {q \in DOMAIN task : /\ task[q].op = "updateTravelPlan"
                         /\ Get(task[q].id) \in DOMAIN task[q].before}
updatedUnknown ==
    {q \in DOMAIN task : /\ task[q].op = "updateTravelPlan"
                         /\ Get(task[q].id) \notin DOMAIN task[q].before}

\* C30: after any sequence of createPlan, updateTravelPlan and
\* deleteTravelPlan on a TravelAgent, every plan in its store is stored under
\* its own id and appears once in getAllTravelPlans; updateTravelPlan on an
\* existing id keeps that id and the original createdAt and leaves the set of
\* stored ids unchanged, and on an unknown id returns null and leaves the store
\* unchanged.
C30_PlansStoredUnderOwnId ==
    /\ \A k \in DOMAIN travelPlans : travelPlans[k].id = k
    /\ \A p \in DOMAIN getAllTravelPlans : getAllTravelPlans[p] = 1
    /\ \A q \in updatedKnown :
          /\ IsSet(task[q].result)
          /\ Get(task[q].result).id = Get(task[q].id)
          /\ Get(task[q].result).createdAt
                = task[q].before[Get(task[q].id)].createdAt
          /\ DOMAIN travelPlans = DOMAIN task[q].before
    /\ \A q \in updatedUnknown :
          task[q].result = None /\ travelPlans = task[q].before

\* a plan created at time 0 was updated at time 1: the store holds it under
\* its id and under the id createTravelPlan made for the update
C30_UpdatedPlanStoredTwice ==
    \E q \in updatedKnown :
        \E k \in DOMAIN travelPlans :
            /\ k # Get(task[q].id)
            /\ k \notin DOMAIN task[q].before
            /\ travelPlans[k] = Get(task[q].result)
            /\ travelPlans[k].id = Get(task[q].id)
            /\ getAllTravelPlans[travelPlans[k]] = 2

\* the part of C30 that holds: createPlan and deleteTravelPlan keep every plan
\* under its own id, the plan updateTravelPlan returns has the id asked for and
\* the original createdAt and is stored under that id, and an unknown id gets
\* null and leaves the store unchanged
C30_UpdateReturnsIdAndCreation ==
    /\ \A q \in DOMAIN task :
          (task[q].op \in {"createPlan", "deleteTravelPlan"}
           /\ \A k \in DOMAIN task[q].before : task[q].before[k].id = k)
          => \A k \in DOMAIN travelPlans : travelPlans[k].id = k
    /\ \A q \in updatedKnown :
          /\ IsSet(task[q].result)
          /\ Get(task[q].result).id = Get(task[q].id)
          /\ Get(task[q].result).createdAt
                = task[q].before[Get(task[q].id)].createdAt
          /\ travelPlans[Get(task[q].id)] = Get(task[q].result)
    /\ \A q \in updatedUnknown :
          task[q].result = None /\ travelPlans = task[q].before

=============================================================================
